---- MODULE Spec2Model ----
(***************************************************************************)
(* Replicated card-game state machine of app/lib/supabaseClient.ts: every  *)
(* peer holds a local GameState (React state `gameState`), local actions   *)
(* go through updateAndBroadcast, and three broadcast listeners (state,    *)
(* join, request_state) react to messages of the shared channel.           *)
(*                                                                         *)
(* Sizes are scaled: the row length (22 in the source), the room capacity  *)
(* (5) and the deck composition (3 x 4 x 13 + 9) are the named bounds      *)
(* below; every operator is written against the names, never the numbers.  *)
(* Player ids are 1..NumPeers, card ids are the positions 1..DeckSize of   *)
(* the freshly generated deck; 0 stands for null in both.                  *)
(*                                                                         *)
(* A handler and the render that precedes it are one step: the closure     *)
(* values `gameState`, `me`, `isMyTurn` a handler reads are those of the   *)
(* peer's current snapshot.                                                *)
(***************************************************************************)
EXTENDS Integers, Sequences, FiniteSets, TLC

\* ------------------------------------------------------------------ sizes
NumPeers == 3          \* browser instances that may open the room
RowSlots == 3          \* Array(22): slots of one PlayerRow
MaxPlayers == 2        \* playerOrder.length >= 5 closes the room
NumDecks == 1          \* d < 3 standard decks
NumSuits == 2          \* SUITS.length (4)
NumRanks == 4          \* RANKS.length (13)
NumJokers == 1         \* j < 9 jokers
RandomDraws == 1       \* iterations of shuffle whose Math.random() is free
RandomGrain == 2       \* Math.random() yields k / RandomGrain, k in 0..RandomGrain - 1
MaxInFlight == 3       \* undelivered messages on the channel
MaxDups == 1           \* join messages the channel delivers a second time
MaxActs == 3           \* local actions taken on the boards
RowCards == 4          \* distinct cards in the two rows handed to the row engine
NumImages == 2         \* JOKER_IMAGES.length (30)
IdDraws == 3           \* calls of randomId() whose Math.random() and Date.now() are free
MinPlayers == 2        \* playerIds.length < 2 refuses the start

NoCard == 0            \* null in a row slot / trumpCard: null
NoPlayer == 0          \* ownerId: null, chosenFirstPlayerId: null
NoIndex == -1          \* fromIndex: null, findIndex/indexOf/lastIndexOf miss

Peers == 1..NumPeers
HandDeal == RowSlots - 1                       \* i < 21 cards dealt per hand
NumStandard == NumDecks * NumSuits * NumRanks  \* 3 * 52
DeckSize == NumStandard + NumJokers            \* 165

VARIABLES
  gameState,            \* [Peers -> GameState | NoState]  useState<GameState | null>
  joinMode,             \* [Peers -> "none" | "host" | "join"]
  chosenFirstPlayerId,  \* [Peers -> id | NoPlayer]
  channelReady,         \* peers whose "after channel ready" effect has run
  net,                  \* [Peers \X Peers -> Seq(message)], FIFO per publisher
  dups,                 \* duplicate deliveries so far
  last,                 \* what the last step did (op, actor, rejected, published)
  acts,                 \* local actions taken so far
  drawsThisTurn,        \* [Peers -> Nat] draws and takes that succeeded at the peer
                        \* since activePlayerId of its snapshot last changed
  history,              \* [Peers -> the peer's snapshots before its last discard
                        \* and before the declare finish it has just made,
                        \* whether it rejected the trump request last accepted,
                        \* whether the host has reset a game, whether
                        \* the peer has declared finish, whether a card
                        \* was taken from the discard pile since the last discard,
                        \* and the players whose trump request was approved]
  calc                  \* a call of a function of the row engine or of the deck
                        \* generator: its arguments and, once it returned, what
                        \* it built and returned

vars ==
  <<gameState, joinMode, chosenFirstPlayerId, channelReady, net, dups, last, acts,
    drawsThisTurn, history, calc>>

\* ------------------------------------------------------------------ JS arrays
\* Array indices are 0-based as in the source; sequences are 1-based.
At(arr, i) == arr[i + 1]

SetAt(arr, i, x) == [arr EXCEPT ![i + 1] = x]

\* arr.splice(i, 1)
spliceOut(arr, i) == SubSeq(arr, 1, i) \o SubSeq(arr, i + 2, Len(arr))

\* arr.splice(i, 0, x)
spliceIn(arr, i, x) == SubSeq(arr, 1, i) \o <<x>> \o SubSeq(arr, i + 1, Len(arr))

\* arr.pop() (the array that remains)
pop(arr) == SubSeq(arr, 1, Len(arr) - 1)

\* arr.slice(i)
sliceFrom(arr, i) == SubSeq(arr, i + 1, Len(arr))

\* arr.indexOf(x) / arr.findIndex((c) => c === x)
indexOf(arr, x) ==
  IF \E k \in 1..Len(arr) : arr[k] = x
  THEN (CHOOSE k \in 1..Len(arr) : arr[k] = x /\ \A m \in 1..(k - 1) : arr[m] # x) - 1
  ELSE NoIndex

\* arr.lastIndexOf(x)
lastIndexOf(arr, x) ==
  IF \E k \in 1..Len(arr) : arr[k] = x
  THEN (CHOOSE k \in 1..Len(arr) : arr[k] = x /\ \A m \in (k + 1)..Len(arr) : arr[m] # x) - 1
  ELSE NoIndex

\* arr.includes(x)
includes(arr, x) == \E k \in 1..Len(arr) : arr[k] = x

\* arr.filter((c) => c !== null).length
countCards(arr) == Cardinality({k \in 1..Len(arr) : arr[k] # NoCard})

\* Array(22).fill(null)
EmptyRow == [i \in 1..RowSlots |-> NoCard]

\* ------------------------------------------------------------------ records
NoState == [status |-> "null"]

NoDiscardInfo ==
  [ownerId |-> NoPlayer, fromRow |-> "null", fromIndex |-> NoIndex, faceDown |-> FALSE]

NoRequest == [requesterId |-> NoPlayer, approverId |-> NoPlayer, status |-> "null"]

\* the snapshot s holds a request that waits for its answer
Pending(s) == s.pendingTrumpRequest # NoRequest /\ s.pendingTrumpRequest.status = "pending"

NewBoard(id, host) ==
  [id |-> id, name |-> id, isHost |-> host, handRow |-> EmptyRow,
   tableRow |-> EmptyRow, submitted |-> FALSE, finished |-> FALSE]

IsJoker(card) == card > NumStandard

\* ------------------------------------------------------------------ deck
\* cards in the order generateDeck pushes them: the standard decks, then jokers
FreshCards == [k \in 1..DeckSize |-> k]

swap(a, i, j) == [a EXCEPT ![i + 1] = a[j + 1], ![j + 1] = a[i + 1]]

\* j = Math.floor(Math.random() * (i + 1)) for every value Math.random() takes
randomIndex(i) == {(k * (i + 1)) \div RandomGrain : k \in 0..(RandomGrain - 1)}

\* shuffle(arr): Fisher-Yates from i = length - 1 down to 1 with j in 0..i.
\* The first RandomDraws iterations draw j at random; the later ones draw j = i.
RECURSIVE shuffleFrom(_, _, _)
shuffleFrom(a, i, free) ==
  IF i < 1 \/ free = 0 THEN {a}
  ELSE UNION {shuffleFrom(swap(a, i, j), i - 1, free - 1) : j \in randomIndex(i)}

shuffle(arr) == shuffleFrom(arr, Len(arr) - 1, RandomDraws)

generateDeck == shuffle(FreshCards)

\* ------------------------------------------------------------------ cards
\* the Card objects generateDeck builds; by their place in RANKS and SUITS a
\* rank is 1..NumRanks and a suit 1..NumSuits, "JOKER" and "joker" come next
JokerRank == NumRanks + 1

JokerSuit == NumSuits + 1

JOKER_IMAGES == [k \in 1..NumImages |-> k]

\* pickJokerImages(): shuffle(JOKER_IMAGES).slice(0, 9)
pickJokerImages == {SubSeq(shuffled, 1, NumJokers) : shuffled \in shuffle(JOKER_IMAGES)}

\* what the first IdDraws calls of randomId() may read: the value of Math.random()
\* in each, and whether the clock has ticked since the call before
RandomValues ==
  [value : [1..IdDraws -> 0..(RandomGrain - 1)], ticked : [2..IdDraws -> BOOLEAN]]

\* Date.now() in the call-th call of randomId(); every call after the first
\* IdDraws falls in a millisecond of its own
now(call, random) ==
  Cardinality({k \in 2..IdDraws : k <= call /\ random.ticked[k]})
    + (IF call > IdDraws THEN call - IdDraws ELSE 0)

\* randomId(): the digits of Math.random() followed by Date.now()
randomId(call, random) ==
  <<IF call <= IdDraws THEN random.value[call] ELSE 0, now(call, random)>>

\* suit === "hearts" || suit === "diamonds" ? "red" : "black"
colorOf(suit) == IF suit <= 2 THEN "red" ELSE "black"

\* the k-th card generateDeck pushes: d, suit and rank loops, then the jokers
newCard(k, random, jokerImages) ==
  IF k <= NumStandard
  THEN [id |-> randomId(k, random),
        rank |-> ((k - 1) % NumRanks) + 1,
        suit |-> (((k - 1) \div NumRanks) % NumSuits) + 1,
        color |-> colorOf((((k - 1) \div NumRanks) % NumSuits) + 1),
        jokerImage |-> 0]
  ELSE [id |-> randomId(k, random),
        rank |-> JokerRank,
        suit |-> JokerSuit,
        color |-> "red",
        jokerImage |-> jokerImages[k - NumStandard]]

\* cards of generateDeck before its final shuffle
pushedCards(random, jokerImages) ==
  [k \in 1..DeckSize |-> newCard(k, random, jokerImages)]

\* ------------------------------------------------------------------ derived
me(p) ==
  IF gameState[p] # NoState /\ p \in DOMAIN gameState[p].players
  THEN gameState[p].players[p]
  ELSE NoState

\* faulty variant: the turn is not looked at
isMyTurnAnyone(p) ==
  /\ gameState[p] # NoState
  /\ me(p) # NoState

isMyTurn(p) ==
  /\ gameState[p] # NoState
  /\ me(p) # NoState
  /\ gameState[p].activePlayerId = p

\* peers whose channel is subscribed
Subscribed == {q \in Peers : joinMode[q] # "none"}

\* ------------------------------------------------------------------ channel
StateMsg(s) == [type |-> "state", payload |-> s]

JoinMsg(p) == [type |-> "join", playerId |-> p]

RequestStateMsg == [type |-> "request_state"]

\* ch.send from p: one copy to every other subscribed peer
Receivers(p) == Subscribed \ {p}

RECURSIVE sumLen(_, _)
sumLen(nt, pairs) ==
  IF pairs = {} THEN 0
  ELSE LET x == CHOOSE y \in pairs : TRUE IN Len(nt[x]) + sumLen(nt, pairs \ {x})

InFlight == sumLen(net, Peers \X Peers)

\* the channel has room for one more broadcast of p
CanSend(p) == InFlight + Cardinality(Receivers(p)) <= MaxInFlight

\* a listener always answers the message it was handed: the channel never
\* holds a listener back.  Only a message delivered again needs room, as it
\* stays on the channel.
CanReply(p, again) == ~again \/ CanSend(p)

send(nt, p, msg) ==
  [pair \in Peers \X Peers |->
     IF pair[1] = p /\ pair[2] \in Receivers(p) THEN Append(nt[pair], msg) ELSE nt[pair]]

Step(op, p, rejected, published) ==
  [op |-> op, actor |-> p, rejected |-> rejected, published |-> published]

\* p's snapshot becomes newState; drew: by a draw or take that succeeded
turnNote(p, newState, drew) ==
  drawsThisTurn' =
    [drawsThisTurn EXCEPT ![p] =
       IF gameState[p] = NoState \/ newState.activePlayerId # gameState[p].activePlayerId
       THEN 0
       ELSE IF drew THEN @ + 1 ELSE @]

\* no function of the row engine is being called
NoCalc ==
  [fn |-> "none", fromRow |-> <<>>, toRow |-> <<>>, fromIndex |-> 0, toIndex |-> 0,
   newFrom |-> <<>>, newTo |-> <<>>, cards |-> <<>>, deck |-> <<>>]

NoBase ==
  [discard |-> NoState, moved |-> FALSE, finish |-> NoState, refusal |-> FALSE,
   reset |-> FALSE, declared |-> FALSE, taken |-> FALSE, approved |-> {}]

\* p's snapshot is replaced by the step op: the snapshot before p's last
\* discard is kept until p draws, takes or receives a snapshot, with a note of
\* the cards p moved since; the snapshot before a declare finish is kept for
\* p's next step only; a rejection by p is remembered at p until a handler of
\* any peer accepts a new trump request; a reset is remembered at every peer
\* the requester whose pending request p, its approver, has just approved
granted(p, op, rejected) ==
  IF /\ op = "approveTrump"
     /\ ~rejected
     /\ Pending(gameState[p])
     /\ gameState[p].pendingTrumpRequest.approverId = p
  THEN {gameState[p].pendingTrumpRequest.requesterId}
  ELSE {}

baseNote(p, op, rejected) ==
  history' =
    [q \in Peers |->
       IF q = p
       THEN [discard |-> IF op = "discard" /\ ~rejected THEN gameState[p]
                         ELSE IF op \in {"draw", "take"} /\ ~rejected THEN NoState
                         ELSE IF op = "onState" THEN NoState
                         ELSE history[p].discard,
             moved |-> IF op = "discard" /\ ~rejected THEN FALSE
                       ELSE IF op = "move" THEN TRUE
                       ELSE history[p].moved,
             finish |-> IF op = "declareFinish" /\ ~rejected THEN gameState[p] ELSE NoState,
             refusal |-> IF op = "rejectTrump" /\ ~rejected THEN TRUE
                         ELSE IF op = "requestTrump" /\ ~rejected THEN FALSE
                         ELSE history[p].refusal,
             reset |-> op = "reset" \/ history[p].reset,
             declared |-> (op = "declareFinish" /\ ~rejected) \/ history[p].declared,
             taken |-> IF op = "take" /\ ~rejected THEN TRUE
                       ELSE IF op = "discard" /\ ~rejected THEN FALSE
                       ELSE history[p].taken,
             approved |-> history[p].approved \cup granted(p, op, rejected)]
       ELSE [history[q] EXCEPT
               !.refusal = IF op = "requestTrump" /\ ~rejected THEN FALSE ELSE @,
               !.reset = op = "reset" \/ @,
               !.taken = IF op = "take" /\ ~rejected THEN TRUE
                         ELSE IF op = "discard" /\ ~rejected THEN FALSE
                         ELSE @,
               !.approved = @ \cup granted(p, op, rejected)]]

\* ------------------------------------------------------------------ start
Init ==
  /\ gameState = [p \in Peers |-> NoState]
  /\ joinMode = [p \in Peers |-> "none"]
  /\ chosenFirstPlayerId = [p \in Peers |-> NoPlayer]
  /\ channelReady = {}
  /\ net = [pair \in Peers \X Peers |-> <<>>]
  /\ dups = 0
  /\ last = Step("init", NoPlayer, FALSE, FALSE)
  /\ acts = 0
  /\ drawsThisTurn = [p \in Peers |-> 0]
  /\ history = [p \in Peers |-> NoBase]
  /\ calc = NoCalc

\* the state the host's "after channel ready" effect builds
LobbyState(playerId) ==
  [status |-> "lobby",
   hostId |-> playerId,
   playerOrder |-> <<playerId>>,
   activePlayerId |-> playerId,
   deck |-> <<>>,
   discardPile |-> <<>>,
   players |-> [id \in {playerId} |-> NewBoard(playerId, TRUE)],
   lastDiscardInfo |-> NoDiscardInfo,
   hasDrawnThisTurn |-> FALSE,
   hasDiscardedThisTurn |-> FALSE,
   trumpCard |-> NoCard,
   trumpViewers |-> <<>>,
   pendingTrumpRequest |-> NoRequest]

\* handleCreateGame and the two effects it triggers. The invite code is fresh,
\* so no other peer is on the channel: request_state and the first state
\* message reach nobody. One room is modelled; its creator is the least peer.
handleCreateGame(p) ==
  /\ \A q \in Peers : joinMode[q] = "none" /\ p <= q
  /\ joinMode' = [joinMode EXCEPT ![p] = "host"]
  /\ channelReady' = channelReady \cup {p}
  /\ gameState' = [gameState EXCEPT ![p] = LobbyState(p)]
  /\ last' = Step("create", p, FALSE, TRUE)
  /\ UNCHANGED <<chosenFirstPlayerId, net, dups, acts, drawsThisTurn, history, calc>>

\* handleJoinGame and the channel effect: subscribe, then send request_state
handleJoinGame(p) ==
  /\ joinMode[p] = "none"
  /\ \E q \in Peers : joinMode[q] = "host"
  /\ CanSend(p)
  /\ joinMode' = [joinMode EXCEPT ![p] = "join"]
  /\ net' = send(net, p, RequestStateMsg)
  /\ last' = Step("join", p, FALSE, FALSE)
  /\ UNCHANGED <<gameState, chosenFirstPlayerId, channelReady, dups, acts, drawsThisTurn, history, calc>>

\* the "after channel ready" effect of a joining peer: send join
sendJoin(p) ==
  /\ joinMode[p] = "join"
  /\ p \notin channelReady
  /\ CanSend(p)
  /\ channelReady' = channelReady \cup {p}
  /\ net' = send(net, p, JoinMsg(p))
  /\ last' = Step("sendJoin", p, FALSE, FALSE)
  /\ UNCHANGED <<gameState, joinMode, chosenFirstPlayerId, dups, acts, drawsThisTurn, history, calc>>

\* ------------------------------------------------------------------ listeners
\* the channel hands p the oldest undelivered message of q; an at-least-once
\* channel may hand it over again later (modelled for join messages: a repeated
\* state message is one more overwrite, a repeated request_state one more reply)
Delivered(q, p, again) ==
  /\ net[<<q, p>>] # <<>>
  /\ \/ ~again /\ dups' = dups
     \/ again /\ dups < MaxDups /\ dups' = dups + 1
              /\ Head(net[<<q, p>>]).type = "join"

remaining(q, p, again) ==
  IF again THEN net ELSE [net EXCEPT ![<<q, p>>] = Tail(@)]

\* faulty variant: the received snapshot is dropped
onStateKeep(p, q, again) ==
  /\ Delivered(q, p, again)
  /\ Head(net[<<q, p>>]).type = "state"
  /\ net' = remaining(q, p, again)
  /\ last' = Step("onState", p, FALSE, FALSE)
  /\ UNCHANGED <<gameState, joinMode, chosenFirstPlayerId, channelReady, acts, drawsThisTurn, history, calc>>

\* ch.on("broadcast", { event: "state" })
onState(p, q, again) ==
  /\ Delivered(q, p, again)
  /\ Head(net[<<q, p>>]).type = "state"
  /\ gameState' = [gameState EXCEPT ![p] = Head(net[<<q, p>>]).payload]
  /\ net' = remaining(q, p, again)
  /\ last' = Step("onState", p, FALSE, FALSE)
  /\ turnNote(p, Head(net[<<q, p>>]).payload, FALSE)
  /\ baseNote(p, "onState", FALSE)
  /\ UNCHANGED <<joinMode, chosenFirstPlayerId, channelReady, acts, calc>>

\* the board and the order after data.playerId is admitted
admitted(current, data) ==
  [current EXCEPT
     !.players = [id \in DOMAIN current.players \cup {data.playerId} |->
                    IF id = data.playerId THEN NewBoard(id, FALSE)
                    ELSE current.players[id]],
     !.playerOrder = Append(current.playerOrder, data.playerId)]

\* faulty variant: every peer admits, not the host alone
admitByAnyone(current, playerId, data) ==
  IF current = NoState THEN NoState
  ELSE IF data.playerId \in DOMAIN current.players THEN NoState
  ELSE IF current.status # "lobby" THEN NoState
  ELSE IF Len(current.playerOrder) >= MaxPlayers THEN NoState
  ELSE admitted(current, data)

\* faulty variant: the room closes one player late (> for >=)
admitOneMore(current, playerId, data) ==
  IF current = NoState THEN NoState
  ELSE IF current.hostId # playerId THEN NoState
  ELSE IF data.playerId \in DOMAIN current.players THEN NoState
  ELSE IF current.status # "lobby" THEN NoState
  ELSE IF Len(current.playerOrder) > MaxPlayers THEN NoState
  ELSE admitted(current, data)

\* the updater of the join listener; NoState stands for "return current"
admit(current, playerId, data) ==
  IF current = NoState THEN NoState
  ELSE IF current.hostId # playerId THEN NoState
  ELSE IF data.playerId \in DOMAIN current.players THEN NoState
  ELSE IF current.status # "lobby" THEN NoState
  ELSE IF Len(current.playerOrder) >= MaxPlayers THEN NoState
  ELSE admitted(current, data)

\* ch.on("broadcast", { event: "join" })
onJoin(p, q, again) ==
  /\ Delivered(q, p, again)
  /\ Head(net[<<q, p>>]).type = "join"
  /\ LET newState == admit(gameState[p], p, Head(net[<<q, p>>]))
     IN IF newState = NoState
        THEN /\ net' = remaining(q, p, again)
             /\ last' = Step("onJoin", p, TRUE, FALSE)
             /\ UNCHANGED gameState
        ELSE /\ CanReply(p, again)
             /\ gameState' = [gameState EXCEPT ![p] = newState]
             /\ net' = send(remaining(q, p, again), p, StateMsg(newState))
             /\ last' = Step("onJoin", p, FALSE, TRUE)
  /\ UNCHANGED <<joinMode, chosenFirstPlayerId, channelReady, acts, drawsThisTurn, history, calc>>

\* faulty variant: nobody answers a request_state
onRequestStateSilent(p, q, again) ==
  /\ Delivered(q, p, again)
  /\ Head(net[<<q, p>>]).type = "request_state"
  /\ net' = remaining(q, p, again)
  /\ last' = Step("onRequestState", p, TRUE, FALSE)
  /\ UNCHANGED <<gameState, joinMode, chosenFirstPlayerId, channelReady, acts,
                 drawsThisTurn, history, calc>>

\* ch.on("broadcast", { event: "request_state" })
onRequestState(p, q, again) ==
  /\ Delivered(q, p, again)
  /\ Head(net[<<q, p>>]).type = "request_state"
  /\ IF gameState[p] = NoState
     THEN /\ net' = remaining(q, p, again)
          /\ last' = Step("onRequestState", p, TRUE, FALSE)
     ELSE /\ CanReply(p, again)
          /\ net' = send(remaining(q, p, again), p, StateMsg(gameState[p]))
          /\ last' = Step("onRequestState", p, FALSE, TRUE)
  /\ UNCHANGED <<gameState, joinMode, chosenFirstPlayerId, channelReady, acts,
                 drawsThisTurn, history, calc>>

\* ------------------------------------------------------------------ updateAndBroadcast
\* setGameState((prev) => ...) of updateAndBroadcast: `updated` is what the
\* updater returned for prev = gameState[p]; NoState stands for null.
updateAndBroadcast(p, updated, op, rejected) ==
  IF gameState[p] = NoState \/ updated = NoState
  THEN /\ last' = Step(op, p, rejected, FALSE)
       /\ UNCHANGED <<gameState, net, drawsThisTurn, history>>
  ELSE /\ CanSend(p)
       /\ gameState' = [gameState EXCEPT ![p] = updated]
       /\ net' = send(net, p, StateMsg(updated))
       /\ last' = Step(op, p, rejected, TRUE)
       /\ turnNote(p, updated, op \in {"draw", "take"} /\ ~rejected)
       /\ baseNote(p, op, rejected)

\* an early return of a handler before it reaches updateAndBroadcast
earlyReturn(p, op) ==
  /\ last' = Step(op, p, TRUE, FALSE)
  /\ UNCHANGED <<gameState, net, drawsThisTurn, history>>

\* Controls that are hidden or disabled by a condition the handler does not test
\* again (Start only in the lobby, Declare finish unless finished, ...) are
\* guards of the action; a condition the handler tests itself is taken by the
\* handler's own early return and recorded as a rejected step.
rendered(p) == gameState[p] # NoState /\ me(p) # NoState

\* a local action on a rendered board: counted, and no other local state moves
Acting(p) ==
  /\ rendered(p)
  /\ acts < MaxActs
  /\ acts' = acts + 1
  /\ UNCHANGED <<joinMode, chosenFirstPlayerId, channelReady, dups, calc>>

\* ------------------------------------------------------------------ host actions
\* the first-player <select>, rendered for the host while status is lobby
chooseFirstPlayer(p, pid) ==
  /\ rendered(p)
  /\ me(p).isHost
  /\ gameState[p].status = "lobby"
  /\ includes(gameState[p].playerOrder, pid)
  /\ chosenFirstPlayerId[p] # pid
  /\ chosenFirstPlayerId' = [chosenFirstPlayerId EXCEPT ![p] = pid]
  /\ last' = Step("chooseFirstPlayer", p, FALSE, FALSE)
  /\ UNCHANGED <<gameState, joinMode, channelReady, net, dups, acts, drawsThisTurn, history, calc>>

\* the hand row dealt to the k-th player (k = 0, 1, ...) of deckAll
dealtHand(deckAll, k) ==
  [i \in 1..RowSlots |->
     IF i <= HandDeal /\ k * HandDeal + i <= Len(deckAll)
     THEN deckAll[k * HandDeal + i] ELSE NoCard]

\* "choose trump (non-joker) from remaining deck": the loop stops at a joker
trumpOf(deckAll, deckIndex) ==
  IF deckIndex < Len(deckAll) /\ ~IsJoker(At(deckAll, deckIndex))
  THEN At(deckAll, deckIndex) ELSE NoCard

startRefused(prev) ==
  Len(prev.playerOrder) < MinPlayers \/ Len(prev.playerOrder) > MaxPlayers

\* the updater of handleStartGame
startGame(prev, firstChoice, deckAll) ==
  LET playerIds == prev.playerOrder
      n == Len(playerIds)
      firstPlayerId == IF firstChoice # NoPlayer THEN firstChoice ELSE playerIds[1]
      trumpCard == trumpOf(deckAll, n * HandDeal)
      deckIndex == IF trumpCard # NoCard THEN n * HandDeal + 1 ELSE n * HandDeal
  IN IF startRefused(prev) THEN prev
     ELSE [prev EXCEPT
             !.players = [pid \in {playerIds[k] : k \in 1..n} |->
                            [prev.players[pid] EXCEPT
                               !.handRow = dealtHand(deckAll, indexOf(playerIds, pid)),
                               !.tableRow = EmptyRow,
                               !.submitted = FALSE,
                               !.finished = FALSE]],
             !.deck = sliceFrom(deckAll, deckIndex + 1),
             !.discardPile = <<At(deckAll, deckIndex)>>,
             !.status = "playing",
             !.activePlayerId = firstPlayerId,
             !.hasDrawnThisTurn = FALSE,
             !.hasDiscardedThisTurn = FALSE,
             !.lastDiscardInfo = NoDiscardInfo,
             !.trumpCard = trumpCard,
             !.trumpViewers = <<>>,
             !.pendingTrumpRequest = NoRequest]

\* the Start game button is rendered for the host while status is lobby
handleStartGame(p) ==
  /\ Acting(p)
  /\ me(p).isHost
  /\ gameState[p].status = "lobby"
  /\ \E deckAll \in generateDeck :
       updateAndBroadcast(p, startGame(gameState[p], chosenFirstPlayerId[p], deckAll),
                          "start", startRefused(gameState[p]))

\* faulty variant: the players who saw the trump still see the next one
hostNewGameKeepViewers(prev) ==
  [prev EXCEPT
     !.status = "lobby",
     !.deck = <<>>,
     !.discardPile = <<>>,
     !.players = [pid \in DOMAIN prev.players |->
                    [prev.players[pid] EXCEPT
                       !.handRow = EmptyRow, !.tableRow = EmptyRow,
                       !.submitted = FALSE, !.finished = FALSE]],
     !.lastDiscardInfo = NoDiscardInfo,
     !.hasDrawnThisTurn = FALSE,
     !.hasDiscardedThisTurn = FALSE,
     !.activePlayerId = prev.hostId,
     !.trumpCard = NoCard,
     !.pendingTrumpRequest = NoRequest]

\* the updater of handleHostNewGame
hostNewGame(prev) ==
  [prev EXCEPT
     !.status = "lobby",
     !.deck = <<>>,
     !.discardPile = <<>>,
     !.players = [pid \in DOMAIN prev.players |->
                    [prev.players[pid] EXCEPT
                       !.handRow = EmptyRow, !.tableRow = EmptyRow,
                       !.submitted = FALSE, !.finished = FALSE]],
     !.lastDiscardInfo = NoDiscardInfo,
     !.hasDrawnThisTurn = FALSE,
     !.hasDiscardedThisTurn = FALSE,
     !.activePlayerId = prev.hostId,
     !.trumpCard = NoCard,
     !.trumpViewers = <<>>,
     !.pendingTrumpRequest = NoRequest]

\* "Host: reset to lobby" is rendered for the host in every status
handleHostNewGame(p) ==
  /\ Acting(p)
  /\ me(p).isHost
  /\ updateAndBroadcast(p, hostNewGame(gameState[p]), "reset", FALSE)

\* ------------------------------------------------------------------ turn actions
\* const emptyIndex = handRow.findIndex((c) => c === null); ...
placeInHand(handRow, card) ==
  LET emptyIndex == indexOf(handRow, NoCard)
  IN IF emptyIndex = NoIndex THEN SetAt(handRow, Len(handRow) - 1, card)
     ELSE SetAt(handRow, emptyIndex, card)

\* faulty variant: the discard flag survives the end of the turn
advanceTurnKeep(state) ==
  LET idx == indexOf(state.playerOrder, state.activePlayerId)
      nextIdx == (idx + 1) % Len(state.playerOrder)
  IN [state EXCEPT
        !.activePlayerId = At(state.playerOrder, nextIdx),
        !.hasDrawnThisTurn = FALSE]

advanceTurn(state) ==
  LET idx == indexOf(state.playerOrder, state.activePlayerId)
      nextIdx == (idx + 1) % Len(state.playerOrder)
  IN [state EXCEPT
        !.activePlayerId = At(state.playerOrder, nextIdx),
        !.hasDrawnThisTurn = FALSE,
        !.hasDiscardedThisTurn = FALSE]

drawRefused(prev) == prev.hasDrawnThisTurn \/ Len(prev.deck) = 0

\* faulty variant: hasDrawnThisTurn is not looked at
drawFromDeckAgain(prev, playerId) ==
  IF Len(prev.deck) = 0 THEN prev
  ELSE [prev EXCEPT
          !.deck = pop(prev.deck),
          !.players[playerId].handRow = placeInHand(@, prev.deck[Len(prev.deck)]),
          !.hasDrawnThisTurn = TRUE]

\* the updater of handleDrawFromDeck
drawFromDeck(prev, playerId) ==
  IF prev.hasDrawnThisTurn THEN prev
  ELSE IF Len(prev.deck) = 0 THEN prev
  ELSE [prev EXCEPT
          !.deck = pop(prev.deck),
          !.players[playerId].handRow = placeInHand(@, prev.deck[Len(prev.deck)]),
          !.hasDrawnThisTurn = TRUE]

handleDrawFromDeck(p) ==
  /\ Acting(p)
  /\ IF ~isMyTurn(p) THEN earlyReturn(p, "draw")
     ELSE updateAndBroadcast(p, drawFromDeck(gameState[p], p), "draw",
                             drawRefused(gameState[p]))

takeRefused(prev) == prev.hasDrawnThisTurn \/ Len(prev.discardPile) = 0

\* the updater of handleTakeFromDiscard
\* faulty variant: the record of the last discard survives the take
takeFromDiscardKeepInfo(prev, playerId) ==
  IF prev.hasDrawnThisTurn THEN prev
  ELSE IF Len(prev.discardPile) = 0 THEN prev
  ELSE [prev EXCEPT
          !.discardPile = pop(prev.discardPile),
          !.players[playerId].handRow =
             placeInHand(@, prev.discardPile[Len(prev.discardPile)]),
          !.hasDrawnThisTurn = TRUE]

takeFromDiscard(prev, playerId) ==
  IF prev.hasDrawnThisTurn THEN prev
  ELSE IF Len(prev.discardPile) = 0 THEN prev
  ELSE [prev EXCEPT
          !.discardPile = pop(prev.discardPile),
          !.players[playerId].handRow =
             placeInHand(@, prev.discardPile[Len(prev.discardPile)]),
          !.hasDrawnThisTurn = TRUE,
          !.lastDiscardInfo = NoDiscardInfo]

handleTakeFromDiscard(p) ==
  /\ Acting(p)
  /\ IF ~isMyTurn(p) THEN earlyReturn(p, "take")
     ELSE updateAndBroadcast(p, takeFromDiscard(gameState[p], p), "take",
                             takeRefused(gameState[p]))

rowOf(board, fromRow) == IF fromRow = "hand" THEN board.handRow ELSE board.tableRow

discardRefused(prev, playerId, fromRow, index) ==
  \/ prev.hasDiscardedThisTurn
  \/ At(rowOf(prev.players[playerId], fromRow), index) = NoCard

\* the updater of handleDiscardCard
discardCard(prev, playerId, fromRow, index) ==
  LET card == At(rowOf(prev.players[playerId], fromRow), index)
      packed == Append(spliceOut(rowOf(prev.players[playerId], fromRow), index), NoCard)
  IN IF discardRefused(prev, playerId, fromRow, index) THEN prev
     ELSE [prev EXCEPT
             !.players[playerId].handRow = IF fromRow = "hand" THEN packed ELSE @,
             !.players[playerId].tableRow = IF fromRow = "table" THEN packed ELSE @,
             !.discardPile = Append(@, card),
             !.hasDiscardedThisTurn = TRUE,
             !.lastDiscardInfo =
                [ownerId |-> playerId, fromRow |-> fromRow, fromIndex |-> index,
                 faceDown |-> FALSE]]

handleDiscardCard(p, fromRow, index) ==
  /\ Acting(p)
  /\ IF ~isMyTurn(p) THEN earlyReturn(p, "discard")
     ELSE updateAndBroadcast(p, discardCard(gameState[p], p, fromRow, index), "discard",
                             discardRefused(gameState[p], p, fromRow, index))

\* faulty variant: the card goes to the first free slot of the hand
putBackFirstFree(board, info, card) == [board EXCEPT !.handRow = placeInHand(@, card)]

\* the rows after the popped card went back where lastDiscardInfo says
\* (the same code in handleUndoDiscard and handleUndoFinish)
putBack(board, info, card) ==
  IF info.fromRow = "hand" /\ info.fromIndex # NoIndex
  THEN [board EXCEPT !.handRow = pop(spliceIn(@, info.fromIndex, card))]
  ELSE IF info.fromRow = "table" /\ info.fromIndex # NoIndex
  THEN [board EXCEPT !.tableRow = pop(spliceIn(@, info.fromIndex, card))]
  ELSE [board EXCEPT !.handRow = placeInHand(@, card)]

undoDiscardRefused(prev, playerId) ==
  \/ prev.lastDiscardInfo.ownerId = NoPlayer
  \/ prev.lastDiscardInfo.ownerId # playerId
  \/ prev.lastDiscardInfo.faceDown
  \/ Len(prev.discardPile) = 0

\* the updater of handleUndoDiscard
undoDiscard(prev, playerId) ==
  IF undoDiscardRefused(prev, playerId) THEN prev
  ELSE [prev EXCEPT
          !.players[playerId] =
             putBack(@, prev.lastDiscardInfo, prev.discardPile[Len(prev.discardPile)]),
          !.discardPile = pop(@),
          !.hasDiscardedThisTurn = FALSE,
          !.lastDiscardInfo = NoDiscardInfo]

handleUndoDiscard(p) ==
  /\ Acting(p)
  /\ IF ~isMyTurn(p) THEN earlyReturn(p, "undoDiscard")
     ELSE updateAndBroadcast(p, undoDiscard(gameState[p], p), "undoDiscard",
                             undoDiscardRefused(gameState[p], p))

\* the updaters of handleSubmitSecondLine / handleUndoSubmitSecondLine
submitSecondLine(prev, playerId, flag) == [prev EXCEPT !.players[playerId].submitted = flag]

\* the button is disabled while me.submitted
handleSubmitSecondLine(p) ==
  /\ Acting(p)
  /\ ~me(p).submitted
  /\ updateAndBroadcast(p, submitSecondLine(gameState[p], p, TRUE), "submit", FALSE)

\* the button is disabled unless me.submitted
handleUndoSubmitSecondLine(p) ==
  /\ Acting(p)
  /\ me(p).submitted
  /\ updateAndBroadcast(p, submitSecondLine(gameState[p], p, FALSE), "undoSubmit", FALSE)

declareFinishRefused(prev) == Len(prev.discardPile) = 0

\* faulty variant: the record of the last discard is not carried over
declareFinishBlank(prev, playerId) ==
  IF declareFinishRefused(prev) THEN prev
  ELSE [prev EXCEPT
          !.players[playerId].finished = TRUE,
          !.status = "finished",
          !.lastDiscardInfo = [NoDiscardInfo EXCEPT !.faceDown = TRUE]]

\* the updater of handleDeclareFinish
declareFinish(prev, playerId) ==
  IF declareFinishRefused(prev) THEN prev
  ELSE [prev EXCEPT
          !.players[playerId].finished = TRUE,
          !.status = "finished",
          !.lastDiscardInfo.faceDown = TRUE]

\* the button is disabled while me.finished
handleDeclareFinish(p) ==
  /\ Acting(p)
  /\ ~me(p).finished
  /\ updateAndBroadcast(p, declareFinish(gameState[p], p), "declareFinish",
                        declareFinishRefused(gameState[p]))

\* faulty variant: the owner of the last discard is not looked at
undoFinishRefusedAnyOwner(prev, playerId) ==
  \/ ~prev.lastDiscardInfo.faceDown
  \/ Len(prev.discardPile) = 0

undoFinishRefused(prev, playerId) ==
  \/ ~prev.lastDiscardInfo.faceDown
  \/ prev.lastDiscardInfo.ownerId # playerId
  \/ Len(prev.discardPile) = 0

\* the updater of handleUndoFinish
undoFinish(prev, playerId) ==
  IF undoFinishRefused(prev, playerId) THEN prev
  ELSE [prev EXCEPT
          !.players[playerId] =
             [putBack(@, prev.lastDiscardInfo, prev.discardPile[Len(prev.discardPile)])
                EXCEPT !.finished = FALSE],
          !.discardPile = pop(@),
          !.status = "playing",
          !.lastDiscardInfo = NoDiscardInfo]

\* the button is disabled unless me.finished and lastDiscardInfo.faceDown
handleUndoFinish(p) ==
  /\ Acting(p)
  /\ me(p).finished
  /\ gameState[p].lastDiscardInfo.faceDown
  /\ updateAndBroadcast(p, undoFinish(gameState[p], p), "undoFinish",
                        undoFinishRefused(gameState[p], p))

totalCards(board) == countCards(board.handRow \o board.tableRow)

endTurnRefused(prev, playerId, proceed) ==
  \/ playerId \notin DOMAIN prev.players
  \/ totalCards(prev.players[playerId]) > HandDeal
  \/ ~prev.hasDiscardedThisTurn /\ ~proceed

\* faulty variant: the turn passes whatever the hand holds
endTurnAlways(prev, playerId, proceed) == advanceTurn(prev)

\* faulty variant: one card more than the dealt hand may be held
endTurnLate(prev, playerId, proceed) ==
  IF \/ playerId \notin DOMAIN prev.players
     \/ totalCards(prev.players[playerId]) > HandDeal + 1
     \/ ~prev.hasDiscardedThisTurn /\ ~proceed
  THEN prev
  ELSE advanceTurn(prev)

\* the updater of handleEndTurn; proceed is the answer to window.confirm,
\* asked only when the hand is small enough and nothing was discarded
endTurn(prev, playerId, proceed) ==
  IF endTurnRefused(prev, playerId, proceed) THEN prev ELSE advanceTurn(prev)

handleEndTurn(p, proceed) ==
  /\ Acting(p)
  /\ IF ~isMyTurn(p) THEN proceed /\ earlyReturn(p, "endTurn")
     ELSE /\ proceed \/ ( /\ totalCards(me(p)) <= HandDeal
                          /\ ~gameState[p].hasDiscardedThisTurn )
          /\ updateAndBroadcast(p, endTurn(gameState[p], p, proceed), "endTurn",
                                endTurnRefused(gameState[p], p, proceed))

\* ------------------------------------------------------------------ trump protocol
requestTrumpRefused(prev, meBoard) ==
  \/ prev.pendingTrumpRequest # NoRequest /\ prev.pendingTrumpRequest.status = "pending"
  \/ includes(prev.trumpViewers, meBoard.id)

\* faulty variant: the host approves every request, its own too
requestTrumpToHost(prev, meBoard) ==
  IF requestTrumpRefused(prev, meBoard) THEN prev
  ELSE [prev EXCEPT
          !.pendingTrumpRequest =
             [requesterId |-> meBoard.id, approverId |-> prev.hostId,
              status |-> "pending"]]

\* faulty variant: a pending request is replaced by the new one
\* faulty variant: who asks for the trump sees it at once
requestTrumpGranted(prev, meBoard) ==
  LET idx == indexOf(prev.playerOrder, meBoard.id)
      nextIdx == (idx + 1) % Len(prev.playerOrder)
      approverId == IF meBoard.isHost THEN At(prev.playerOrder, nextIdx) ELSE prev.hostId
  IN IF requestTrumpRefused(prev, meBoard) THEN prev
     ELSE [prev EXCEPT
             !.trumpViewers = Append(@, meBoard.id),
             !.pendingTrumpRequest =
                [requesterId |-> meBoard.id, approverId |-> approverId,
                 status |-> "pending"]]

\* faulty variant: a player who already sees the trump may ask again
requestTrumpByViewer(prev, meBoard) ==
  LET idx == indexOf(prev.playerOrder, meBoard.id)
      nextIdx == (idx + 1) % Len(prev.playerOrder)
      approverId == IF meBoard.isHost THEN At(prev.playerOrder, nextIdx) ELSE prev.hostId
  IN IF prev.pendingTrumpRequest # NoRequest /\ prev.pendingTrumpRequest.status = "pending"
     THEN prev
     ELSE [prev EXCEPT
             !.pendingTrumpRequest =
                [requesterId |-> meBoard.id, approverId |-> approverId,
                 status |-> "pending"]]

requestTrumpOver(prev, meBoard) ==
  LET idx == indexOf(prev.playerOrder, meBoard.id)
      nextIdx == (idx + 1) % Len(prev.playerOrder)
      approverId == IF meBoard.isHost THEN At(prev.playerOrder, nextIdx) ELSE prev.hostId
  IN IF includes(prev.trumpViewers, meBoard.id) THEN prev
     ELSE [prev EXCEPT
             !.pendingTrumpRequest =
                [requesterId |-> meBoard.id, approverId |-> approverId,
                 status |-> "pending"]]

\* the updater of handleRequestTrump
requestTrump(prev, meBoard) ==
  LET idx == indexOf(prev.playerOrder, meBoard.id)
      nextIdx == (idx + 1) % Len(prev.playerOrder)
      approverId == IF meBoard.isHost THEN At(prev.playerOrder, nextIdx) ELSE prev.hostId
  IN IF requestTrumpRefused(prev, meBoard) THEN prev
     ELSE [prev EXCEPT
             !.pendingTrumpRequest =
                [requesterId |-> meBoard.id, approverId |-> approverId,
                 status |-> "pending"]]

\* canRequestTrump: of its conjuncts only status = "playing" is not tested
\* again by handleRequestTrump
handleRequestTrump(p) ==
  /\ Acting(p)
  /\ gameState[p].status = "playing"
  /\ IF ~isMyTurn(p) \/ gameState[p].trumpCard = NoCard
     THEN earlyReturn(p, "requestTrump")
     ELSE updateAndBroadcast(p, requestTrump(gameState[p], me(p)), "requestTrump",
                             requestTrumpRefused(gameState[p], me(p)))

approveTrumpRefused(prev, meBoard) ==
  \/ prev.pendingTrumpRequest = NoRequest
  \/ prev.pendingTrumpRequest.approverId # meBoard.id
  \/ prev.pendingTrumpRequest.status # "pending"
  \/ prev.trumpCard = NoCard

\* faulty variant: any player may approve
approveTrumpByAnyone(prev, meBoard) ==
  LET req == prev.pendingTrumpRequest
  IN IF req = NoRequest \/ req.status # "pending" \/ prev.trumpCard = NoCard THEN prev
     ELSE [prev EXCEPT
             !.trumpViewers = IF includes(@, req.requesterId) THEN @
                              ELSE Append(@, req.requesterId),
             !.pendingTrumpRequest.status = "approved"]

\* faulty variant: the requester's position in playerOrder is added, not its id
approveTrumpByIndex(prev, meBoard) ==
  LET req == prev.pendingTrumpRequest
  IN IF approveTrumpRefused(prev, meBoard) THEN prev
     ELSE [prev EXCEPT
             !.trumpViewers = Append(@, indexOf(prev.playerOrder, req.requesterId)),
             !.pendingTrumpRequest.status = "approved"]

\* the updater of handleApproveTrump
approveTrump(prev, meBoard) ==
  LET req == prev.pendingTrumpRequest
  IN IF approveTrumpRefused(prev, meBoard) THEN prev
     ELSE [prev EXCEPT
             !.trumpViewers = IF includes(@, req.requesterId) THEN @
                              ELSE Append(@, req.requesterId),
             !.pendingTrumpRequest.status = "approved"]

handleApproveTrump(p) ==
  /\ Acting(p)
  /\ updateAndBroadcast(p, approveTrump(gameState[p], me(p)), "approveTrump",
                        approveTrumpRefused(gameState[p], me(p)))

rejectTrumpRefused(prev, meBoard) ==
  \/ prev.pendingTrumpRequest = NoRequest
  \/ prev.pendingTrumpRequest.approverId # meBoard.id
  \/ prev.pendingTrumpRequest.status # "pending"

\* faulty variant: any player may reject
rejectTrumpByAnyone(prev, meBoard) ==
  IF prev.pendingTrumpRequest = NoRequest \/ prev.pendingTrumpRequest.status # "pending"
  THEN prev
  ELSE [prev EXCEPT !.pendingTrumpRequest.status = "rejected"]

\* the updater of handleRejectTrump
rejectTrump(prev, meBoard) ==
  IF rejectTrumpRefused(prev, meBoard) THEN prev
  ELSE [prev EXCEPT !.pendingTrumpRequest.status = "rejected"]

handleRejectTrump(p) ==
  /\ Acting(p)
  /\ updateAndBroadcast(p, rejectTrump(gameState[p], me(p)), "rejectTrump",
                        rejectTrumpRefused(gameState[p], me(p)))

\* ------------------------------------------------------------------ rows
\* faulty variant: the two slots change places
moveWithinRowSwap(row, fromIndex, toIndex) ==
  SetAt(SetAt(row, toIndex, At(row, fromIndex)), fromIndex, At(row, toIndex))

\* faulty variant: the row is always cut at its end
moveBetweenRowsCut(fromRow, toRow, fromIndex, toIndex) ==
  [newFrom |-> Append(spliceOut(fromRow, fromIndex), NoCard),
   newTo |-> pop(spliceIn(toRow, toIndex, At(fromRow, fromIndex)))]

\* faulty variant: the first empty slot is removed, not the last
moveBetweenRowsPack(fromRow, toRow, fromIndex, toIndex) ==
  LET grown == spliceIn(toRow, toIndex, At(fromRow, fromIndex))
      firstNullIndex == indexOf(grown, NoCard)
  IN [newFrom |-> Append(spliceOut(fromRow, fromIndex), NoCard),
      newTo |-> IF firstNullIndex # NoIndex THEN spliceOut(grown, firstNullIndex)
                ELSE pop(grown)]

moveWithinRow(row, fromIndex, toIndex) ==
  spliceIn(spliceOut(row, fromIndex), toIndex, At(row, fromIndex))

moveBetweenRows(fromRow, toRow, fromIndex, toIndex) ==
  LET card == At(fromRow, fromIndex)
      newFrom == Append(spliceOut(fromRow, fromIndex), NoCard)
      grown == spliceIn(toRow, toIndex, card)
      lastNullIndex == lastIndexOf(grown, NoCard)
  IN [newFrom |-> newFrom,
      newTo |-> IF lastNullIndex # NoIndex THEN spliceOut(grown, lastNullIndex)
                ELSE pop(grown)]

\* the updater shared by handleMoveCardDrop and handleCardTap
moveCard(prev, playerId, fromRow, fromIndex, targetRow, targetIndex) ==
  LET board == prev.players[playerId]
      res == moveBetweenRows(rowOf(board, fromRow), rowOf(board, targetRow),
                             fromIndex, targetIndex)
  IN IF fromRow = targetRow
     THEN IF fromRow = "hand"
          THEN [prev EXCEPT !.players[playerId].handRow =
                               moveWithinRow(@, fromIndex, targetIndex)]
          ELSE [prev EXCEPT !.players[playerId].tableRow =
                               moveWithinRow(@, fromIndex, targetIndex)]
     ELSE IF fromRow = "hand"
          THEN [prev EXCEPT !.players[playerId].handRow = res.newFrom,
                            !.players[playerId].tableRow = res.newTo]
          ELSE [prev EXCEPT !.players[playerId].tableRow = res.newFrom,
                            !.players[playerId].handRow = res.newTo]

\* a drag or tap selection starts on one of the peer's own cards and ends on
\* another slot
handleMoveCardDrop(p, fromRow, fromIndex, targetRow, targetIndex) ==
  /\ Acting(p)
  /\ At(rowOf(me(p), fromRow), fromIndex) # NoCard
  /\ ~(fromRow = targetRow /\ fromIndex = targetIndex)
  /\ updateAndBroadcast(p, moveCard(gameState[p], p, fromRow, fromIndex,
                                    targetRow, targetIndex), "move", FALSE)

\* ------------------------------------------------------------------ play
Rows == {"hand", "table"}

Slots == 0..(RowSlots - 1)

Turn(p) ==
  \/ handleDrawFromDeck(p)
  \/ handleTakeFromDiscard(p)
  \/ \E fromRow \in Rows, index \in Slots : handleDiscardCard(p, fromRow, index)
  \/ handleUndoDiscard(p)
  \/ handleSubmitSecondLine(p)
  \/ handleUndoSubmitSecondLine(p)
  \/ handleDeclareFinish(p)
  \/ handleUndoFinish(p)
  \/ \E proceed \in BOOLEAN : handleEndTurn(p, proceed)

Trump(p) ==
  \/ handleRequestTrump(p)
  \/ handleApproveTrump(p)
  \/ handleRejectTrump(p)

Move(p) ==
  \E fromRow \in Rows, fromIndex \in Slots, targetRow \in Rows, targetIndex \in Slots :
    handleMoveCardDrop(p, fromRow, fromIndex, targetRow, targetIndex)

Restart(p) == handleStartGame(p) \/ handleHostNewGame(p)

\* ------------------------------------------------------------------ specification
Lobby ==
  \E p \in Peers :
    \/ handleCreateGame(p)
    \/ handleJoinGame(p)
    \/ sendJoin(p)
    \/ \E pid \in Peers : chooseFirstPlayer(p, pid)
    \/ Restart(p)

Deliver ==
  \E p \in Peers, q \in Peers, again \in BOOLEAN :
    \/ onState(p, q, again)
    \/ onJoin(p, q, again)
    \/ onRequestState(p, q, again)

Next == Lobby \/ Deliver

Spec == Init /\ [][Next]_vars


\* ------------------------------------------------------------------ a room in play
\* The room after peers 1..n joined in order and every message was delivered,
\* still in the lobby or started by the host: the states Spec reaches by
\* handleCreateGame, handleJoinGame, sendJoin, onJoin, onRequestState, onState,
\* chooseFirstPlayer and handleStartGame.
RECURSIVE lobbyOf(_)
lobbyOf(n) ==
  IF n = 1 THEN LobbyState(1) ELSE admit(lobbyOf(n - 1), 1, JoinMsg(n))

Room(n, firstChoice, s, op) ==
  /\ gameState = [p \in Peers |-> IF p <= n THEN s ELSE NoState]
  /\ joinMode = [p \in Peers |-> IF p = 1 THEN "host" ELSE IF p <= n THEN "join" ELSE "none"]
  /\ chosenFirstPlayerId = [p \in Peers |-> IF p = 1 THEN firstChoice ELSE NoPlayer]
  /\ channelReady = 1..n
  /\ last = Step(op, 1, FALSE, TRUE)

InitPlay ==
  /\ \E n \in 1..MaxPlayers, firstChoice \in 0..MaxPlayers :
       /\ firstChoice <= n
       /\ \/ /\ firstChoice # NoPlayer
             /\ \E deckAll \in generateDeck :
                  Room(n, firstChoice, startGame(lobbyOf(n), firstChoice, deckAll), "start")
             /\ n >= MinPlayers
          \/ /\ n < MinPlayers
             /\ Room(n, firstChoice, lobbyOf(n), IF n = 1 THEN "create" ELSE "onJoin")
  /\ net = [pair \in Peers \X Peers |-> <<>>]
  /\ dups = 0
  /\ acts = 0
  /\ drawsThisTurn = [p \in Peers |-> 0]
  /\ history = [p \in Peers |-> NoBase]
  /\ calc = NoCalc

NextPlay ==
  \E p \in Peers :
    \/ Turn(p)
    \/ Trump(p)
    \/ Restart(p)
    \/ \E q \in Peers : onState(p, q, FALSE)

SpecPlay == InitPlay /\ [][NextPlay]_vars

\* ------------------------------------------------------------------ full lobby
\* a full room in the lobby, in sync, before the host presses Start
InitLobby ==
  /\ \E firstChoice \in 0..MaxPlayers :
       Room(MaxPlayers, firstChoice, lobbyOf(MaxPlayers), "onJoin")
  /\ net = [pair \in Peers \X Peers |-> <<>>]
  /\ dups = 0
  /\ acts = 0
  /\ drawsThisTurn = [p \in Peers |-> 0]
  /\ history = [p \in Peers |-> NoBase]
  /\ calc = NoCalc

SpecLobby == InitLobby /\ [][NextPlay]_vars

\* ------------------------------------------------------------------ catching up
\* peers open the page of a room that is in the lobby or in play
NextCatchUp ==
  \E p \in Peers :
    \/ handleJoinGame(p)
    \/ sendJoin(p)
    \/ Restart(p)
    \/ \E q \in Peers :
         \/ onState(p, q, FALSE)
         \/ onJoin(p, q, FALSE)
         \/ onRequestState(p, q, FALSE)

\* fair delivery: the message at the head of a queue is handed to its listener
\* sooner or later
FairDelivery ==
  \A p \in Peers, q \in Peers :
    /\ WF_vars(onState(p, q, FALSE))
    /\ WF_vars(onJoin(p, q, FALSE))
    /\ WF_vars(onRequestState(p, q, FALSE))

SpecCatchUp == (InitPlay \/ InitLobby) /\ [][NextCatchUp]_vars /\ FairDelivery

\* ------------------------------------------------------------------ row engine
\* the pairs of rows of RowSlots slots that hold no card twice
EngineRows ==
  {pair \in [1..RowSlots -> 0..RowCards] \X [1..RowSlots -> 0..RowCards] :
     \A c \in 1..RowCards :
       Cardinality({k \in 1..RowSlots : pair[1][k] = c})
         + Cardinality({k \in 1..RowSlots : pair[2][k] = c}) <= 1}

\* a function of the row engine is about to be called on two rows and two
\* indices; nobody has opened the page
InitEngine ==
  /\ gameState = [p \in Peers |-> NoState]
  /\ joinMode = [p \in Peers |-> "none"]
  /\ chosenFirstPlayerId = [p \in Peers |-> NoPlayer]
  /\ channelReady = {}
  /\ net = [pair \in Peers \X Peers |-> <<>>]
  /\ dups = 0
  /\ last = Step("init", NoPlayer, FALSE, FALSE)
  /\ acts = 0
  /\ drawsThisTurn = [p \in Peers |-> 0]
  /\ history = [p \in Peers |-> NoBase]
  /\ \E pair \in EngineRows, fromIndex \in 0..(RowSlots - 1), toIndex \in 0..(RowSlots - 1) :
       calc = [NoCalc EXCEPT !.fromRow = pair[1], !.toRow = pair[2],
                             !.fromIndex = fromIndex, !.toIndex = toIndex]

callMoveWithinRow ==
  /\ calc.fn = "none"
  /\ calc' = [calc EXCEPT
                !.fn = "moveWithinRow",
                !.newFrom = moveWithinRow(calc.fromRow, calc.fromIndex, calc.toIndex)]
  /\ UNCHANGED <<gameState, joinMode, chosenFirstPlayerId, channelReady, net, dups, last,
                 acts, drawsThisTurn, history>>

callMoveBetweenRows ==
  /\ calc.fn = "none"
  /\ LET res == moveBetweenRows(calc.fromRow, calc.toRow, calc.fromIndex, calc.toIndex)
     IN calc' = [calc EXCEPT
                   !.fn = "moveBetweenRows",
                   !.newFrom = res.newFrom,
                   !.newTo = res.newTo]
  /\ UNCHANGED <<gameState, joinMode, chosenFirstPlayerId, channelReady, net, dups, last,
                 acts, drawsThisTurn, history>>

NextEngine == callMoveWithinRow \/ callMoveBetweenRows

SpecEngine == InitEngine /\ [][NextEngine]_vars

\* ------------------------------------------------------------------ deck generator
\* generateDeck() called once, for every outcome of its random source
callGenerateDeck ==
  /\ calc.fn = "none"
  /\ \E random \in RandomValues, jokerImages \in pickJokerImages :
       \E deck \in shuffle(pushedCards(random, jokerImages)) :
         calc' = [NoCalc EXCEPT !.fn = "generateDeck",
                                !.cards = pushedCards(random, jokerImages),
                                !.deck = deck]
  /\ UNCHANGED <<gameState, joinMode, chosenFirstPlayerId, channelReady, net, dups, last,
                 acts, drawsThisTurn, history>>

InitDeck == Init

SpecDeck == InitDeck /\ [][callGenerateDeck]_vars

\* ------------------------------------------------------------------ rows in play
\* the same rooms between two deliveries: the turn handlers and the drags and
\* taps that move a card within or between the rows of the acting peer, each
\* snapshot they publish staying in flight
NextRows ==
  \E p \in Peers :
    \/ Turn(p)
    \/ Move(p)

SpecRows == InitPlay /\ [][NextRows]_vars

\* ------------------------------------------------------------------ trump in play
\* a full room after Start, in sync, where the first player has or has not
\* asked for the trump already
InitTrump ==
  /\ \E firstChoice \in 1..MaxPlayers, deckAll \in generateDeck, asked \in BOOLEAN :
       LET started == startGame(lobbyOf(MaxPlayers), firstChoice, deckAll)
           s == IF asked THEN requestTrump(started, started.players[firstChoice])
                ELSE started
       IN /\ Room(MaxPlayers, firstChoice, s, "start")
          /\ asked => Pending(s)
  /\ net = [pair \in Peers \X Peers |-> <<>>]
  /\ dups = 0
  /\ acts = 0
  /\ drawsThisTurn = [p \in Peers |-> 0]
  /\ history = [p \in Peers |-> NoBase]
  /\ calc = NoCalc

SpecTrump == InitTrump /\ [][NextPlay]_vars

\* ------------------------------------------------------------------ a turn under way
\* The full room after the start, the draw of the first player from the deck,
\* possibly its discard of the card in hand slot 0, and the delivery of every
\* message.
InitTurn ==
  /\ \E firstChoice \in 1..MaxPlayers, deckAll \in generateDeck, discarded \in BOOLEAN :
       LET drawn == drawFromDeck(startGame(lobbyOf(MaxPlayers), firstChoice, deckAll),
                                 firstChoice)
           s == IF discarded THEN discardCard(drawn, firstChoice, "hand", 0) ELSE drawn
       IN /\ gameState = [p \in Peers |-> IF p <= MaxPlayers THEN s ELSE NoState]
          /\ chosenFirstPlayerId =
               [p \in Peers |-> IF p = 1 THEN firstChoice ELSE NoPlayer]
          /\ last = Step(IF discarded THEN "discard" ELSE "draw", firstChoice, FALSE, TRUE)
          /\ drawsThisTurn = [p \in Peers |-> IF p = firstChoice THEN 1 ELSE 0]
          /\ history =
               [p \in Peers |->
                  IF discarded /\ p = firstChoice THEN [NoBase EXCEPT !.discard = drawn]
                  ELSE NoBase]
  /\ joinMode =
       [p \in Peers |-> IF p = 1 THEN "host" ELSE IF p <= MaxPlayers THEN "join" ELSE "none"]
  /\ channelReady = 1..MaxPlayers
  /\ net = [pair \in Peers \X Peers |-> <<>>]
  /\ dups = 0
  /\ acts = 0
  /\ calc = NoCalc

SpecTurn == InitTurn /\ [][NextPlay]_vars

\* ------------------------------------------------------------------ properties
\* peers that hold a snapshot
Snapshots == {p \in Peers : gameState[p] # NoState}

TurnOps == {"draw", "take", "discard", "undoDiscard", "endTurn"}

TrumpOps == {"requestTrump", "approveTrump", "rejectTrump"}

LocalOps ==
  TurnOps \cup TrumpOps \cup {"submit", "undoSubmit", "declareFinish", "undoFinish", "start"}

\* C1: in every snapshot of every peer, activePlayerId is a member of
\* playerOrder (after start with a chosen first player, after end turn, after
\* reset, under every interleaving of state and join deliveries).
C1_ActiveInOrder ==
  \A p \in Snapshots : includes(gameState[p].playerOrder, gameState[p].activePlayerId)

\* C2: a local action that is rejected puts no state message on the channel.
C2_RejectedPublishesNothing ==
  [][last'.rejected /\ last'.op \in LocalOps => net' = net]_vars

\* C3: a rejected local action (turn machine, trump protocol, start game)
\* leaves the acting peer's snapshot exactly as it was.
C3_RejectedLeavesSnapshot ==
  [][last'.rejected /\ last'.op \in LocalOps
       => gameState'[last'.actor] = gameState[last'.actor]]_vars

\* an end turn was refused because the hand holds more than the dealt cards
C3_Witness ==
  /\ last.op = "endTurn" /\ last.rejected
  /\ totalCards(me(last.actor)) > HandDeal

Agree == \A p \in Snapshots, q \in Snapshots : gameState[p] = gameState[q]

\* C4 as stated: whenever every published message has been delivered, all
\* peers that hold a snapshot hold the same one.
C4_QuiescentAgree == InFlight = 0 => Agree

\* C4 amended: from agreeing peers, one local action followed by the delivery
\* of its state message to every other subscribed peer leaves all peers with
\* the same snapshot.
C4_OneActionAgree == InFlight = 0 /\ acts <= 1 => Agree

\* one action was taken, published and delivered to another peer
C4_Witness ==
  /\ InFlight = 0 /\ acts = 1
  /\ last.op = "onState"
  /\ Cardinality(Snapshots) >= MinPlayers

\* C5: the join listener of peer p on a join message msg
C5Accepts(p, msg) ==
  /\ gameState[p] # NoState
  /\ gameState[p].hostId = p
  /\ gameState[p].status = "lobby"
  /\ msg.playerId \notin DOMAIN gameState[p].players
  /\ Len(gameState[p].playerOrder) < MaxPlayers

C5Effect(p, msg) ==
  /\ \A r \in Peers \ {p} : gameState'[r] = gameState[r]
  /\ IF C5Accepts(p, msg)
     THEN /\ DOMAIN gameState'[p].players = DOMAIN gameState[p].players \cup {msg.playerId}
          /\ \A id \in DOMAIN gameState[p].players :
               gameState'[p].players[id] = gameState[p].players[id]
          /\ gameState'[p].players[msg.playerId].handRow = [i \in 1..RowSlots |-> NoCard]
          /\ gameState'[p].players[msg.playerId].tableRow = [i \in 1..RowSlots |-> NoCard]
          /\ ~gameState'[p].players[msg.playerId].isHost
          /\ gameState'[p].playerOrder = Append(gameState[p].playerOrder, msg.playerId)
          /\ [gameState'[p] EXCEPT !.players = 0, !.playerOrder = 0]
               = [gameState[p] EXCEPT !.players = 0, !.playerOrder = 0]
          /\ \A r \in Subscribed \ {p} :
               /\ Len(net'[<<p, r>>]) = Len(net[<<p, r>>]) + 1
               /\ net'[<<p, r>>][Len(net'[<<p, r>>])] = [type |-> "state", payload |-> gameState'[p]]
     ELSE /\ gameState'[p] = gameState[p]
          /\ \A pair \in Peers \X Peers : Len(net'[pair]) <= Len(net[pair])

\* C5: a join message changes a snapshot only at the host, in the lobby, for a
\* sender not yet in players and a room below capacity; then one board with
\* two empty rows and isHost = false is added, the sender is appended to
\* playerOrder and the result is published; otherwise nothing changes and
\* nothing is published.
C5_JoinAdmission ==
  [][\A p \in Peers, q \in Peers, again \in BOOLEAN :
       onJoin(p, q, again) => C5Effect(p, Head(net[<<q, p>>]))]_vars

\* the host admitted a player, after another join had been turned away
C5_Witness ==
  /\ last.op = "onJoin" /\ last.published
  /\ Len(gameState[last.actor].playerOrder) = MaxPlayers
  /\ Len(net[<<last.actor, gameState[last.actor].playerOrder[MaxPlayers]>>]) > 0

unique(arr) == \A i \in 1..Len(arr), j \in 1..Len(arr) : arr[i] = arr[j] => i = j

\* C6: in every snapshot playerOrder holds no id twice and at most the room
\* capacity, and between the minimum and the capacity while status is playing.
C6_PlayerOrderBounds ==
  \A p \in Snapshots :
    /\ unique(gameState[p].playerOrder)
    /\ Len(gameState[p].playerOrder) <= MaxPlayers
    /\ gameState[p].status = "playing" => Len(gameState[p].playerOrder) >= MinPlayers

\* a join message was delivered twice and the full room is playing
C6_Witness ==
  /\ dups = MaxDups
  /\ \E p \in Snapshots :
       /\ gameState[p].status = "playing"
       /\ Len(gameState[p].playerOrder) = MaxPlayers

StartPost(s, first) ==
  /\ \A pid \in DOMAIN s.players :
       /\ countCards(s.players[pid].handRow) = HandDeal
       /\ countCards(s.players[pid].tableRow) = 0
  /\ Len(s.discardPile) = 1
  /\ s.trumpCard # NoCard
  /\ Len(s.deck) = DeckSize - HandDeal * Len(s.playerOrder) - 1 - 1
  /\ s.status = "playing"
  /\ s.activePlayerId = first
  /\ ~s.hasDrawnThisTurn /\ ~s.hasDiscardedThisTurn

\* C7: after a successful start, for every deck order, every hand row holds
\* the dealt number of cards, every table row is empty, the discard pile holds
\* one card, trumpCard is set, the deck holds the rest less trump and discard,
\* status is playing, the chosen player is active and both flags are false.
C7_StartDeals ==
  [][last'.op = "start" /\ ~last'.rejected
       => StartPost(gameState'[last'.actor],
                    IF chosenFirstPlayerId[last'.actor] # NoPlayer
                    THEN chosenFirstPlayerId[last'.actor]
                    ELSE gameState[last'.actor].playerOrder[1])]_vars

TurnFields(s) ==
  <<s.deck, s.discardPile,
    [pid \in DOMAIN s.players |-> <<s.players[pid].handRow, s.players[pid].tableRow>>],
    s.hasDrawnThisTurn, s.hasDiscardedThisTurn, s.lastDiscardInfo, s.activePlayerId>>

\* C8: draw, take, discard, undo discard and end turn in status lobby or
\* finished leave deck, discard pile, rows, flags, lastDiscardInfo and
\* activePlayerId unchanged.
C8_OnlyWhilePlaying ==
  [][last'.op \in TurnOps /\ gameState[last'.actor].status # "playing"
       => TurnFields(gameState'[last'.actor]) = TurnFields(gameState[last'.actor])]_vars

\* C9: draw, take, discard, undo discard, end turn and trump request by a
\* player whose id is not activePlayerId never change the snapshot.
C9_OnlyActivePlayer ==
  [][last'.op \in TurnOps \cup {"requestTrump"}
       /\ gameState[last'.actor].activePlayerId # last'.actor
       => gameState'[last'.actor] = gameState[last'.actor]]_vars

\* a player who is not active asked for the trump and was turned away
C9_Witness ==
  /\ last.op = "requestTrump" /\ last.rejected
  /\ gameState[last.actor].activePlayerId # last.actor
  /\ gameState[last.actor].status = "playing"

\* C10 as stated: between two changes of activePlayerId at most one draw or
\* take succeeds at a peer.
C10_OneDrawPerTurn == \A p \in Peers : drawsThisTurn[p] <= 1

\* C10 amended: a draw or take on a snapshot whose hasDrawnThisTurn is true,
\* and a draw on a snapshot whose deck is empty, fail and leave the snapshot
\* (deck, discard pile, rows and all) unchanged.
C10_DrawnOrEmptyRefused ==
  [][/\ last'.op \in {"draw", "take"}
     /\ \/ gameState[last'.actor].hasDrawnThisTurn
        \/ last'.op = "draw" /\ Len(gameState[last'.actor].deck) = 0
     => last'.rejected /\ gameState'[last'.actor] = gameState[last'.actor]]_vars

\* a second draw in the turn was refused
C10_Witness ==
  /\ last.op = "draw" /\ last.rejected
  /\ gameState[last.actor].hasDrawnThisTurn
  /\ drawsThisTurn[last.actor] = 1

\* ------------------------------------------------------------------ C11
\* the step is an undo discard of p that changed p's snapshot
UndoDiscardDone(p) ==
  /\ last'.op = "undoDiscard"
  /\ last'.actor = p
  /\ ~last'.rejected
  /\ last'.published

\* s has the rows of p and the length of the discard pile of base, and the
\* discard flag and lastDiscardInfo cleared
DiscardUndone(p, s, base) ==
  /\ s.players[p].handRow = base.players[p].handRow
  /\ s.players[p].tableRow = base.players[p].tableRow
  /\ Len(s.discardPile) = Len(base.discardPile)
  /\ ~s.hasDiscardedThisTurn
  /\ s.lastDiscardInfo = NoDiscardInfo

\* C11 as stated: an undo discard that follows a successful discard of the same
\* player with no draw or take between them restores the player's rows and the
\* length of the discard pile of the snapshot before the discard, and clears
\* hasDiscardedThisTurn and lastDiscardInfo
C11_UndoRestores ==
  [][\A p \in Peers :
       UndoDiscardDone(p) /\ history[p].discard # NoState
         => DiscardUndone(p, gameState'[p], history[p].discard)]_vars

\* C11 amended: the same when the player also moved no card between the
\* discard and the undo
C11_UndoRestoresUnmoved ==
  [][\A p \in Peers :
       UndoDiscardDone(p) /\ history[p].discard # NoState /\ ~history[p].moved
         => DiscardUndone(p, gameState'[p], history[p].discard)]_vars

\* an undo discard has just restored the snapshot from before the discard
C11_Witness ==
  /\ last.op = "undoDiscard"
  /\ ~last.rejected
  /\ last.published
  /\ history[last.actor].discard # NoState
  /\ ~history[last.actor].moved
  /\ DiscardUndone(last.actor, gameState[last.actor], history[last.actor].discard)

\* ------------------------------------------------------------------ C12
\* C12: an undo finish that directly follows a successful declare finish of the
\* same player restores the snapshot from before the declare finish exactly
\* (status, rows, finished flag, discard pile, lastDiscardInfo, turn flags)
C12_UndoFinishRestores ==
  [][\A p \in Peers :
       /\ last'.op = "undoFinish"
       /\ last'.actor = p
       /\ ~last'.rejected
       /\ last'.published
       /\ history[p].finish # NoState
       => gameState'[p] = history[p].finish]_vars

\* ------------------------------------------------------------------ C13
\* C13: an end turn by a player whose rows hold more cards than were dealt
\* fails and leaves activePlayerId and both turn flags as they were; an end turn
\* whose confirmation is declined leaves the snapshot unchanged
C13_EndTurnRefusals ==
  [][\A p \in Peers, proceed \in BOOLEAN :
       handleEndTurn(p, proceed)
         => /\ totalCards(me(p)) > HandDeal
                 => /\ last'.rejected
                    /\ gameState'[p].activePlayerId = gameState[p].activePlayerId
                    /\ gameState'[p].hasDrawnThisTurn = gameState[p].hasDrawnThisTurn
                    /\ gameState'[p].hasDiscardedThisTurn = gameState[p].hasDiscardedThisTurn
            /\ ~proceed => gameState'[p] = gameState[p]]_vars

\* the active player drew and then asked to end the turn without discarding
C13_Witness ==
  /\ last.op = "endTurn"
  /\ last.rejected
  /\ last.published
  /\ gameState[last.actor].activePlayerId = last.actor
  /\ gameState[last.actor].hasDrawnThisTurn
  /\ ~gameState[last.actor].hasDiscardedThisTurn
  /\ totalCards(me(last.actor)) = HandDeal + 1

\* ------------------------------------------------------------------ C14
FlagsClear(s) == ~s.hasDrawnThisTurn /\ ~s.hasDiscardedThisTurn

ActiveChanged(p) ==
  /\ gameState[p] # NoState
  /\ gameState'[p] # NoState
  /\ gameState'[p].activePlayerId # gameState[p].activePlayerId

\* next is the entry of playerOrder after active, the first one after the last
NextInOrder(s, active, next) ==
  \E i \in 0..(Len(s.playerOrder) - 1) :
    /\ At(s.playerOrder, i) = active
    /\ At(s.playerOrder, (i + 1) % Len(s.playerOrder)) = next

\* C14 as stated, its second half: in every state that directly follows a
\* change of activePlayerId both turn flags are false
C14_FlagsClearAfterChange ==
  [][\A p \in Peers : ActiveChanged(p) => FlagsClear(gameState'[p])]_vars

\* C14 amended: a successful end turn makes the next player of playerOrder
\* (wrapping) active with both turn flags false, and both flags are false after
\* every step of a peer's own handlers that changes its activePlayerId
C14_EndTurnAdvances ==
  [][\A p \in Peers :
       /\ last'.op = "endTurn" /\ last'.actor = p /\ ~last'.rejected /\ last'.published
            => /\ NextInOrder(gameState[p], gameState[p].activePlayerId,
                              gameState'[p].activePlayerId)
               /\ FlagsClear(gameState'[p])
       /\ last'.op # "onState" /\ last'.actor = p /\ ActiveChanged(p)
            => FlagsClear(gameState'[p])]_vars

\* the last player of playerOrder ended a turn in which it had discarded, and
\* the first one is active
C14_Witness ==
  /\ last.op = "endTurn"
  /\ ~last.rejected
  /\ last.published
  /\ Len(gameState[last.actor].playerOrder) >= MinPlayers
  /\ last.actor = At(gameState[last.actor].playerOrder,
                     Len(gameState[last.actor].playerOrder) - 1)
  /\ gameState[last.actor].activePlayerId = At(gameState[last.actor].playerOrder, 0)
  /\ FlagsClear(gameState[last.actor])
  /\ history[last.actor].discard # NoState

\* ------------------------------------------------------------------ C15
\* the rows of every player are the same in s and t
SameRows(s, t) ==
  /\ DOMAIN s.players = DOMAIN t.players
  /\ \A q \in DOMAIN s.players :
       /\ s.players[q].handRow = t.players[q].handRow
       /\ s.players[q].tableRow = t.players[q].tableRow

\* C15: a declare finish on an empty discard pile fails and leaves the snapshot
\* unchanged; on any other pile it sets the actor's finished flag, the status
\* finished and lastDiscardInfo.faceDown, and keeps ownerId, fromRow and
\* fromIndex of lastDiscardInfo, the discard pile, the deck and all rows
C15_DeclareFinish ==
  [][\A p \in Peers :
       last'.op = "declareFinish" /\ last'.actor = p
         => IF Len(gameState[p].discardPile) = 0
            THEN last'.rejected /\ gameState'[p] = gameState[p]
            ELSE /\ ~last'.rejected
                 /\ gameState'[p].players[p].finished
                 /\ gameState'[p].status = "finished"
                 /\ gameState'[p].lastDiscardInfo.faceDown
                 /\ gameState'[p].lastDiscardInfo.ownerId = gameState[p].lastDiscardInfo.ownerId
                 /\ gameState'[p].lastDiscardInfo.fromRow = gameState[p].lastDiscardInfo.fromRow
                 /\ gameState'[p].lastDiscardInfo.fromIndex =
                      gameState[p].lastDiscardInfo.fromIndex
                 /\ gameState'[p].discardPile = gameState[p].discardPile
                 /\ gameState'[p].deck = gameState[p].deck
                 /\ SameRows(gameState'[p], gameState[p])]_vars

\* a player has declared finish on its own discard
C15_Witness ==
  /\ last.op = "declareFinish"
  /\ ~last.rejected
  /\ last.published
  /\ gameState[last.actor].status = "finished"
  /\ me(last.actor).finished
  /\ gameState[last.actor].lastDiscardInfo.ownerId = last.actor
  /\ gameState[last.actor].lastDiscardInfo.faceDown

\* ------------------------------------------------------------------ C16
\* C16: a trump request issued while a request is pending fails and leaves the
\* pending request, and the rest of the snapshot, unchanged, whoever issues it
C16_OnePending ==
  [][\A p \in Peers :
       last'.op = "requestTrump" /\ last'.actor = p /\ Pending(gameState[p])
         => last'.rejected /\ gameState'[p] = gameState[p]]_vars

\* the active player asked for the trump while another player's request was
\* pending, and was refused
C16_Witness ==
  /\ last.op = "requestTrump"
  /\ last.rejected
  /\ last.published
  /\ Pending(gameState[last.actor])
  /\ gameState[last.actor].pendingTrumpRequest.requesterId # last.actor

\* ------------------------------------------------------------------ C17
\* C17: in every snapshot of every peer, every id of trumpViewers is an id of
\* playerOrder
C17_ViewersArePlayers ==
  \A p \in Snapshots :
    \A i \in 1..Len(gameState[p].trumpViewers) :
      includes(gameState[p].playerOrder, gameState[p].trumpViewers[i])

\* a peer has received a snapshot in which a player may see the trump
C17_Witness ==
  /\ last.op = "onState"
  /\ gameState[last.actor].trumpViewers # <<>>
  /\ \A p \in Snapshots : gameState[p].trumpViewers # <<>>

\* ------------------------------------------------------------------ C18
\* the step is a trump request of p that was accepted
RequestDone(p) ==
  /\ last'.op = "requestTrump"
  /\ last'.actor = p
  /\ ~last'.rejected
  /\ last'.published

\* C18: the approver of an accepted request is the host when the requester is
\* not the host, and the player after the host in playerOrder (wrapping) when
\* the requester is the host; so it is never the requester and always a player
\* of playerOrder
C18_Approver ==
  [][\A p \in Peers :
       RequestDone(p)
         => LET s == gameState[p]
                req == gameState'[p].pendingTrumpRequest
            IN /\ req # NoRequest
               /\ req.requesterId = p
               /\ IF p # s.hostId THEN req.approverId = s.hostId
                  ELSE NextInOrder(s, s.hostId, req.approverId)
               /\ req.approverId # p
               /\ includes(s.playerOrder, req.approverId)]_vars

\* the host's request is pending with the player after the host
C18_Witness ==
  /\ last.op = "requestTrump"
  /\ ~last.rejected
  /\ last.published
  /\ last.actor = gameState[last.actor].hostId
  /\ Pending(gameState[last.actor])
  /\ gameState[last.actor].pendingTrumpRequest.requesterId = last.actor
  /\ gameState[last.actor].pendingTrumpRequest.approverId # last.actor

\* ------------------------------------------------------------------ C19
\* p is the approver of the pending request of s
AnswerableBy(s, p) == Pending(s) /\ s.pendingTrumpRequest.approverId = p

\* C19: an approve changes the snapshot only when it comes from the approver
\* of a pending request and a trump card is present; it then marks the request
\* approved and has the requester in trumpViewers exactly once, adding it if
\* it was not there, and changes nothing else; any other approve leaves the
\* snapshot unchanged
C19_Approve ==
  [][\A p \in Peers :
       last'.op = "approveTrump" /\ last'.actor = p
         => LET s == gameState[p]
                t == gameState'[p]
            IN IF AnswerableBy(s, p) /\ s.trumpCard # NoCard
               THEN /\ ~last'.rejected
                    /\ t = [s EXCEPT !.pendingTrumpRequest.status = "approved",
                                      !.trumpViewers = t.trumpViewers]
                    /\ t.trumpViewers \in
                         {s.trumpViewers,
                          Append(s.trumpViewers, s.pendingTrumpRequest.requesterId)}
                    /\ Cardinality({i \in 1..Len(t.trumpViewers) :
                                      t.trumpViewers[i] = s.pendingTrumpRequest.requesterId}) = 1
               ELSE last'.rejected /\ t = s]_vars

\* the approver has approved the request and the requester may see the trump
C19_Witness ==
  /\ last.op = "approveTrump"
  /\ ~last.rejected
  /\ last.published
  /\ gameState[last.actor].pendingTrumpRequest # NoRequest
  /\ gameState[last.actor].pendingTrumpRequest.status = "approved"
  /\ gameState[last.actor].pendingTrumpRequest.approverId = last.actor
  /\ includes(gameState[last.actor].trumpViewers,
              gameState[last.actor].pendingTrumpRequest.requesterId)

\* ------------------------------------------------------------------ C20
\* C20 as stated, its third part: once the approver has rejected a request, no
\* approve of it succeeds afterwards
C20_RejectedNeverApproved ==
  [][\A p \in Peers :
       last'.op = "approveTrump" /\ last'.actor = p /\ ~last'.rejected /\ last'.published
         => ~history[p].refusal]_vars

Rejected(s) == s.pendingTrumpRequest # NoRequest /\ s.pendingTrumpRequest.status = "rejected"

\* C20 amended: a reject changes the snapshot only when it comes from the
\* approver of a pending request, and then only marks the request rejected
\* (trumpViewers unchanged); an approve or reject on a snapshot whose request
\* is rejected leaves it unchanged; and a request made on a snapshot whose
\* request is rejected, by the active player who is not a trump viewer, is
\* accepted
C20_Reject ==
  [][\A p \in Peers :
       LET s == gameState[p]
           t == gameState'[p]
       IN /\ last'.op = "rejectTrump" /\ last'.actor = p
               => IF AnswerableBy(s, p)
                  THEN /\ ~last'.rejected
                       /\ t = [s EXCEPT !.pendingTrumpRequest.status = "rejected"]
                  ELSE last'.rejected /\ t = s
          /\ last'.op \in {"approveTrump", "rejectTrump"} /\ last'.actor = p /\ Rejected(s)
               => last'.rejected /\ t = s
          /\ ( /\ last'.op = "requestTrump" /\ last'.actor = p /\ Rejected(s)
               /\ s.activePlayerId = p /\ s.trumpCard # NoCard
               /\ ~includes(s.trumpViewers, p) )
               => ~last'.rejected /\ Pending(t) /\ t.pendingTrumpRequest.requesterId = p]_vars

\* the approver has rejected the pending request
C20_Witness ==
  /\ last.op = "rejectTrump"
  /\ ~last.rejected
  /\ last.published
  /\ Rejected(gameState[last.actor])
  /\ gameState[last.actor].pendingTrumpRequest.approverId = last.actor
  /\ history[last.actor].refusal

\* ------------------------------------------------------------------ C21
\* C21: the host's reset yields status lobby with every row empty, deck and
\* discard pile empty, no trump card, no trump viewer, no trump request,
\* lastDiscardInfo cleared and both turn flags false, and leaves playerOrder,
\* the set of players, hostId and every player's id, name and isHost unchanged
C21_Reset ==
  [][\A p \in Peers :
       last'.op = "reset" /\ last'.actor = p
         => LET s == gameState[p]
                t == gameState'[p]
            IN /\ ~last'.rejected
               /\ t.status = "lobby"
               /\ \A q \in DOMAIN t.players :
                    /\ t.players[q].handRow = EmptyRow
                    /\ t.players[q].tableRow = EmptyRow
               /\ t.deck = <<>>
               /\ t.discardPile = <<>>
               /\ t.trumpCard = NoCard
               /\ t.trumpViewers = <<>>
               /\ t.pendingTrumpRequest = NoRequest
               /\ t.lastDiscardInfo = NoDiscardInfo
               /\ FlagsClear(t)
               /\ t.playerOrder = s.playerOrder
               /\ DOMAIN t.players = DOMAIN s.players
               /\ t.hostId = s.hostId
               /\ \A q \in DOMAIN s.players :
                    /\ t.players[q].id = s.players[q].id
                    /\ t.players[q].name = s.players[q].name
                    /\ t.players[q].isHost = s.players[q].isHost]_vars

\* the host has reset a started game in which a player saw the trump
C21_Witness ==
  /\ last.op = "reset"
  /\ gameState[last.actor].status = "lobby"
  /\ Len(gameState[last.actor].playerOrder) >= MinPlayers
  /\ gameState[last.actor].trumpViewers = <<>>
  /\ \E q \in Snapshots : gameState[q].trumpViewers # <<>>

\* ------------------------------------------------------------------ C22
Started(s) == s # NoState /\ s.status \in {"playing", "finished"}

\* C22: at every peer the status of a started game goes back to lobby only by
\* the reset handler of the host, or by the delivery of a snapshot when the
\* host has made a reset; no step returns it to lobby while no reset was made
C22_LobbyOnlyByReset ==
  [][\A p \in Peers :
       Started(gameState[p]) /\ gameState'[p].status = "lobby"
         => \/ /\ last'.op = "reset"
               /\ last'.actor = p
               /\ p = gameState[p].hostId
            \/ /\ last'.op = "onState"
               /\ last'.actor = p
               /\ history[p].reset]_vars

\* ------------------------------------------------------------------ C23
occurrences(arr, x) == Cardinality({k \in 1..Len(arr) : arr[k] = x})

\* every card is as often in the two rows returned as in the two rows handed in
CardsKept ==
  \A c \in 1..RowCards :
    occurrences(calc.newFrom, c) + occurrences(calc.newTo, c)
      = occurrences(calc.fromRow, c) + occurrences(calc.toRow, c)

RowsWhole == Len(calc.newFrom) = RowSlots /\ Len(calc.newTo) = RowSlots

C24_MoveWithinRow ==
  calc.fn = "moveWithinRow"
    => /\ Len(calc.newFrom) = RowSlots
       /\ \A c \in 0..RowCards : occurrences(calc.newFrom, c) = occurrences(calc.fromRow, c)
       /\ calc.newFrom[calc.toIndex + 1] = calc.fromRow[calc.fromIndex + 1]
       /\ [k \in 1..(RowSlots - 1) |->
             calc.newFrom[IF k <= calc.toIndex THEN k ELSE k + 1]]
            = [k \in 1..(RowSlots - 1) |->
                 calc.fromRow[IF k <= calc.fromIndex THEN k ELSE k + 1]]

\* a card was moved over another card to the far end of its row
C24_Witness ==
  /\ calc.fn = "moveWithinRow"
  /\ calc.fromIndex = 0
  /\ calc.toIndex = RowSlots - 1
  /\ calc.fromRow[1] # NoCard
  /\ calc.fromRow[2] # NoCard
  /\ calc.newFrom[RowSlots] = calc.fromRow[1]

\* ------------------------------------------------------------------ C30
\* the target row with the element moved put in at toIndex
Grown ==
  [k \in 1..(RowSlots + 1) |->
     IF k <= calc.toIndex THEN calc.toRow[k]
     ELSE IF k = calc.toIndex + 1 THEN calc.fromRow[calc.fromIndex + 1]
     ELSE calc.toRow[k - 1]]

\* the slot of Grown that goes: its highest empty slot, or its last slot
Gone ==
  IF \E k \in 1..(RowSlots + 1) : Grown[k] = NoCard
  THEN CHOOSE k \in 1..(RowSlots + 1) :
         Grown[k] = NoCard /\ \A m \in (k + 1)..(RowSlots + 1) : Grown[m] # NoCard
  ELSE RowSlots + 1

\* the cards of arr other than the one moved, in their order
Others(arr) ==
  SelectSeq(arr, LAMBDA c : c # NoCard /\ c # calc.fromRow[calc.fromIndex + 1])

\* a is b, or b without its last element
SameOrCut(a, b) == a = b \/ (b # <<>> /\ a = SubSeq(b, 1, Len(b) - 1))

\* C30: moveBetweenRows returns the source row without the element at
\* fromIndex and with one empty slot added at its end, and the target row with
\* that element put in at toIndex and then without its highest empty slot, or
\* without its last element when it has no empty slot; the other cards keep
\* their order in both rows
C30_Reference ==
  calc.fn = "moveBetweenRows"
    => /\ calc.newFrom =
            [k \in 1..RowSlots |->
               IF k <= calc.fromIndex THEN calc.fromRow[k]
               ELSE IF k < RowSlots THEN calc.fromRow[k + 1]
               ELSE NoCard]
       /\ calc.newTo = [k \in 1..RowSlots |-> Grown[IF k < Gone THEN k ELSE k + 1]]
       /\ Others(calc.newFrom) = Others(calc.fromRow)
       /\ SameOrCut(Others(calc.newTo), Others(calc.toRow))

\* a card went in before an empty slot of a row whose last empty slot was
\* further on
C30_Witness ==
  /\ calc.fn = "moveBetweenRows"
  /\ calc.fromRow[calc.fromIndex + 1] # NoCard
  /\ calc.toIndex = 0
  /\ calc.toRow[1] = NoCard
  /\ calc.toRow[2] # NoCard
  /\ calc.toRow[RowSlots] = NoCard
  /\ calc.newTo[1] = calc.fromRow[calc.fromIndex + 1]
  /\ calc.newTo[2] = NoCard

\* ------------------------------------------------------------------ C25
\* places of deck that hold the card c
copies(deck, c) == Cardinality({i \in 1..Len(deck) : deck[i] = c})

\* DeckSize cards; NumDecks cards of every rank and suit; NumJokers jokers whose
\* images differ; the deck returned holds every card built as often as it was built
DeckCounts(cards, deck) ==
  /\ Len(deck) = DeckSize
  /\ \A rank \in 1..NumRanks, suit \in 1..NumSuits :
       Cardinality({i \in 1..Len(deck) : deck[i].rank = rank /\ deck[i].suit = suit})
         = NumDecks
  /\ Cardinality({i \in 1..Len(deck) : deck[i].suit = JokerSuit}) = NumJokers
  /\ \A i \in 1..Len(deck) :
       deck[i].suit = JokerSuit <=> deck[i].rank = JokerRank
  /\ \A i, j \in 1..Len(deck) :
       (i # j /\ deck[i].suit = JokerSuit /\ deck[j].suit = JokerSuit)
         => deck[i].jokerImage # deck[j].jokerImage
  /\ \A i \in 1..Len(deck) :
       deck[i].suit = JokerSuit => deck[i].jokerImage \in 1..NumImages
  /\ Len(cards) = Len(deck)
  /\ \A i \in 1..Len(cards) : copies(deck, cards[i]) = copies(cards, cards[i])

DistinctIds(deck) == \A i, j \in 1..Len(deck) : i # j => deck[i].id # deck[j].id

\* C25: the deck generateDeck returns has DeckSize cards with pairwise distinct
\* ids, NumDecks cards of every rank and suit and NumJokers jokers with pairwise
\* distinct images, and is a permutation of the cards that were built.
C25_DeckGenerator ==
  calc.fn = "generateDeck"
    => DistinctIds(calc.deck) /\ DeckCounts(calc.cards, calc.deck)

\* ------------------------------------------------------------------ C26
\* C26: a declare finish made while status is not "playing", or by a player
\* other than activePlayerId, leaves the snapshot unchanged
C26_DeclareFinishGuard ==
  [][\A p \in Peers :
       (/\ last'.op = "declareFinish"
        /\ last'.actor = p
        /\ \/ gameState[p].status # "playing"
           \/ gameState[p].activePlayerId # p)
         => gameState'[p] = gameState[p]]_vars

\* ------------------------------------------------------------------ C27
\* C27: an undo finish is accepted only while lastDiscardInfo.faceDown is true and
\* only from the player recorded in lastDiscardInfo, who has declared finish; an
\* accepted one clears that player's finished flag and sets status to "playing";
\* an undo finish by any other player leaves the snapshot unchanged
C27_UndoFinish ==
  [][\A p \in Peers :
       (last'.op = "undoFinish" /\ last'.actor = p)
         => /\ ~last'.rejected
                 => /\ gameState[p].lastDiscardInfo.faceDown
                    /\ gameState[p].lastDiscardInfo.ownerId = p
                    /\ history[p].declared
                    /\ gameState[p].players[p].finished
                    /\ gameState[p].status = "finished"
                    /\ ~gameState'[p].players[p].finished
                    /\ gameState'[p].status = "playing"
            /\ gameState[p].lastDiscardInfo.ownerId # p
                 => last'.rejected /\ gameState'[p] = gameState[p]
            /\ ~gameState[p].lastDiscardInfo.faceDown
                 => last'.rejected /\ gameState'[p] = gameState[p]]_vars

\* an undo finish has just been accepted
C27_Witness ==
  /\ last.op = "undoFinish"
  /\ ~last.rejected
  /\ last.published
  /\ gameState[last.actor].status = "playing"
  /\ ~gameState[last.actor].players[last.actor].finished

\* ------------------------------------------------------------------ C28
\* C28: a trump request made when there is no trump card, or by a player who is
\* already in trumpViewers, leaves the snapshot unchanged; an accepted request
\* changes pendingTrumpRequest only, to a pending request of the actor
C28_RequestFrame ==
  [][\A p \in Peers :
       (last'.op = "requestTrump" /\ last'.actor = p)
         => /\ (\/ gameState[p].trumpCard = NoCard
                 \/ includes(gameState[p].trumpViewers, p))
                 => last'.rejected /\ gameState'[p] = gameState[p]
            /\ ~last'.rejected
                 => /\ gameState'[p] =
                         [gameState[p] EXCEPT
                            !.pendingTrumpRequest = gameState'[p].pendingTrumpRequest]
                    /\ gameState'[p].pendingTrumpRequest # gameState[p].pendingTrumpRequest
                    /\ gameState'[p].pendingTrumpRequest.status = "pending"
                    /\ gameState'[p].pendingTrumpRequest.requesterId = p]_vars

\* a player who sees the trump has just asked for it again and was refused
C28_Witness ==
  /\ last.op = "requestTrump"
  /\ last.rejected
  /\ gameState[last.actor].trumpCard # NoCard
  /\ includes(gameState[last.actor].trumpViewers, last.actor)
  /\ gameState[last.actor].activePlayerId = last.actor

\* ------------------------------------------------------------------ C29
\* a take by p that succeeds pops the top of the discard pile into p's first
\* empty hand slot, sets hasDrawnThisTurn and clears lastDiscardInfo; a take on
\* an empty discard pile leaves the snapshot as it was
TakeEffects(p) ==
  (last'.op = "take" /\ last'.actor = p)
    => /\ ~last'.rejected
            => /\ Len(gameState[p].discardPile) > 0
               /\ gameState'[p].discardPile = pop(gameState[p].discardPile)
               /\ indexOf(gameState[p].players[p].handRow, NoCard) # NoIndex
               /\ gameState'[p].players[p].handRow =
                    SetAt(gameState[p].players[p].handRow,
                          indexOf(gameState[p].players[p].handRow, NoCard),
                          gameState[p].discardPile[Len(gameState[p].discardPile)])
               /\ gameState'[p].hasDrawnThisTurn
               /\ gameState'[p].lastDiscardInfo = NoDiscardInfo
       /\ Len(gameState[p].discardPile) = 0
            => last'.rejected /\ gameState'[p] = gameState[p]

\* an undo discard by q on the snapshot s would fail
UndoFails(s, q) ==
  \/ s = NoState
  \/ q \notin DOMAIN s.players
  \/ s.activePlayerId # q
  \/ undoDiscardRefused(s, q)

\* C29 as stated: a take has the effects above, and from a take that succeeded
\* until the next discard that succeeds an undo discard fails for every player
C29_TakeBlocksUndo ==
  [][/\ \A p \in Peers : TakeEffects(p)
     /\ (\E p \in Peers : history'[p].taken)
          => \A q \in Peers : UndoFails(gameState'[q], q)]_vars

\* C29: a take has the effects above, and on the snapshot it leaves an undo
\* discard fails for every player
C29_Take ==
  [][\A p \in Peers :
       /\ TakeEffects(p)
       /\ (last'.op = "take" /\ last'.actor = p /\ ~last'.rejected)
            => \A q \in Peers :
                 \/ q \notin DOMAIN gameState'[p].players
                 \/ undoDiscardRefused(gameState'[p], q)]_vars

\* the owner of the last discard has just taken a card from the discard pile
C29_Witness ==
  /\ last.op = "take"
  /\ ~last.rejected
  /\ last.published
  /\ history[last.actor].taken
  /\ gameState[last.actor].hasDiscardedThisTurn
  /\ gameState[last.actor].lastDiscardInfo = NoDiscardInfo

\* ------------------------------------------------------------------ C31
\* a request_state listener has just run at p: p's snapshot is as it was; if p
\* holds one, every other subscribed peer is sent it as a state message, and
\* if p holds none, nothing is sent
RequestAnswered(p) ==
  (last'.op = "onRequestState" /\ last'.actor = p)
    => /\ gameState' = gameState
       /\ \E q \in Peers, again \in BOOLEAN :
            /\ net[<<q, p>>] # <<>>
            /\ Head(net[<<q, p>>]).type = "request_state"
            /\ net' = IF gameState[p] = NoState
                      THEN remaining(q, p, again)
                      ELSE send(remaining(q, p, again), p, StateMsg(gameState[p]))
       /\ last'.published <=> gameState[p] # NoState

\* C31: a peer that receives request_state publishes its snapshot unchanged if it
\* holds one and nothing otherwise; under fair delivery a peer that subscribed
\* and sent request_state to a room whose host holds a snapshot comes to hold one
C31_CatchUp ==
  /\ [][\A p \in Peers : RequestAnswered(p)]_vars
  /\ \A p \in Peers : (joinMode[p] = "join") ~> (gameState[p] # NoState)

\* a peer that was not admitted to the full room holds the snapshot it asked for
C31_Witness ==
  \E p \in Peers :
    /\ joinMode[p] = "join"
    /\ gameState[p] # NoState
    /\ p \notin DOMAIN gameState[p].players
    /\ last.op = "onState"
    /\ last.actor = p

\* ------------------------------------------------------------------ C32
\* places of the snapshot s that hold the card c: deck, discard pile, trump card
\* and the two rows of every player
held(s, c) ==
  occurrences(s.deck, c) + occurrences(s.discardPile, c)
    + (IF s.trumpCard = c THEN 1 ELSE 0)
    + Cardinality({x \in (DOMAIN s.players) \X {"hand", "table"} \X (1..RowSlots) :
                     rowOf(s.players[x[1]], x[2])[x[3]] = c})

\* C32: in a snapshot of a started game every card of the deck that was dealt
\* is held exactly once: no card is lost and no card appears twice
C32_CardsConserved ==
  \A p \in Peers :
    Started(gameState[p]) => \A c \in 1..DeckSize : held(gameState[p], c) = 1

\* ------------------------------------------------------------------ C33
\* C33: in a snapshot in play whose active player holds more cards than were
\* dealt, so that end turn is refused, hasDiscardedThisTurn is false: the active
\* player can still discard
C33_NoStuckTurn ==
  \A p \in Peers :
    (/\ gameState[p] # NoState
     /\ gameState[p].status = "playing"
     /\ gameState[p].activePlayerId \in DOMAIN gameState[p].players
     /\ totalCards(gameState[p].players[gameState[p].activePlayerId]) > HandDeal)
      => ~gameState[p].hasDiscardedThisTurn

\* ------------------------------------------------------------------ C34
\* C34: in every snapshot, status is "finished" exactly when some player board
\* has finished = TRUE; so after an undo finish that sets status back to
\* "playing" no player is still marked finished
C34_FinishedConsistent ==
  \A p \in Peers :
    gameState[p] # NoState
      => (gameState[p].status = "finished"
            <=> \E pid \in DOMAIN gameState[p].players :
                  gameState[p].players[pid].finished)

\* ------------------------------------------------------------------ C35
\* the players named in trumpViewers of the snapshot s
viewersOf(s) == IF s = NoState THEN {} ELSE {s.trumpViewers[i] : i \in 1..Len(s.trumpViewers)}

\* a step of p's own handlers changes trumpViewers only by an approve of p, the
\* approver of a pending request, which adds the requester, and by a start or a
\* reset, which leave it empty
ViewersStep(p) ==
  (/\ last'.actor = p
   /\ last'.op # "onState"
   /\ gameState[p] # NoState
   /\ gameState'[p].trumpViewers # gameState[p].trumpViewers)
    => \/ /\ last'.op = "approveTrump"
          /\ Pending(gameState[p])
          /\ gameState[p].pendingTrumpRequest.approverId = p
          /\ gameState'[p].trumpViewers =
               Append(gameState[p].trumpViewers, gameState[p].pendingTrumpRequest.requesterId)
       \/ /\ last'.op \in {"start", "reset"}
          /\ gameState'[p].trumpViewers = <<>>

\* C35: a player is in trumpViewers of a snapshot only if a pending request of
\* that player was approved by the approver of the request; no other action
\* adds a player to trumpViewers, and every start and reset empties it.
\* (A snapshot is replaced as a whole, so the two step properties give "since
\* the start that snapshot descends from" for every snapshot.)
C35_ViewersByApproval ==
  /\ [](\A p \in Peers : viewersOf(gameState[p]) \subseteq history[p].approved)
  /\ [][\A p \in Peers :
          /\ ViewersStep(p)
          /\ (last'.actor = p /\ last'.op \in {"start", "reset"} /\ ~last'.rejected)
               => gameState'[p].trumpViewers = <<>>]_vars

\* the requester sees the trump at a peer other than its approver's
C35_Witness ==
  \E p \in Peers :
    /\ last.op = "onState"
    /\ last.actor = p
    /\ viewersOf(gameState[p]) # {}
    /\ viewersOf(gameState[p]) \subseteq history[p].approved
    /\ p \in viewersOf(gameState[p])

====
